---- MODULE Spec2Model ----
(***************************************************************************)
(* SafetyEscrow: the booking escrow ledger of the repository (a Solidity   *)
(* contract).  One booking per identifier, a status state machine driven   *)
(* by an oracle's SLA verification, payouts by external calls that may     *)
(* re-enter the contract, disputes settled by an arbiter.                  *)
(*                                                                         *)
(* A transaction that reverts leaves no trace in storage, so it is no step *)
(* of the model: each entry point has a result operator (the revert        *)
(* message the code answers with in the current state, or OK) and an       *)
(* action that is enabled exactly when that result is OK.  A payout is     *)
(* split at its external calls: while a transfer's recipient runs, the     *)
(* transaction is in flight (tx), the reentrancy lock is held (entered)    *)
(* and the recipient may call back into the contract; when the recipient   *)
(* returns, the transaction goes on, or reverts to the saved storage.      *)
(***************************************************************************)
EXTENDS Integers, Sequences, FiniteSets, TLC

VARIABLES
    bookings,           \* mapping(string => Booking)
    authorizedOracles,  \* mapping(address => bool), as the set of true keys
    arbiters,           \* mapping(address => bool), as the set of true keys
    now,                \* block.timestamp
    balance,            \* address(this).balance: the value held in escrow
    paidOut,            \* per booking, the value transferred to each party
    events,             \* per booking id, the events emitted with that id, in order
    roleEvent,          \* the event the latest role operation emitted, <<>> before any
    entered,            \* ReentrancyGuard: _status == _ENTERED
    tx                  \* the payout transaction in flight, or NoTx

vars == <<bookings, authorizedOracles, arbiters, now, balance, paidOut, events,
          roleEvent, entered, tx>>

----------------------------------------------------------------------------
(* Bounds and input sets *)

\* the clock takes the values 0..MaxSlack and SLA_TIMEOUT..SLA_TIMEOUT+MaxSlack
MaxSlack == 1

\* calls a transfer's recipient may make into the contract during one callback
MaxNested == 1

\* number of distinct non-null addresses
NumAddr == 3

\* booking identifiers in use
Ids == {"b1"}

\* msg.value of a deposit: 0 (rejected), an amount whose penalty rounds to 0,
\* and an amount with a non-zero penalty
Values == {0, 100, 1500}

----------------------------------------------------------------------------
(* Program constants *)

SLA_TIMEOUT_HOURS == 24

PENALTY_PERCENTAGE == 10

BASIS_POINTS == 10000

\* Solidity's time unit "1 hours", in seconds
HOUR == 3600

\* address(0)
NullAddr == 0

\* Ownable: the deployer
Owner == 1

Addr == 1..NumAddr

\* the addresses given to authorize/revoke calls: none, the owner, another
RoleInputs == {NullAddr, Owner, NumAddr}

\* those given to the oracle and to the arbiter operations where bookings are
\* exercised as well: an oracle that is not the owner, and the owner as arbiter
OracleInputs == {NullAddr, NumAddr}
ArbiterInputs == {NullAddr, Owner}

Instants == (0..MaxSlack) \cup ((SLA_TIMEOUT_HOURS * HOUR)..(SLA_TIMEOUT_HOURS * HOUR + MaxSlack))

BookingStatus == {"Pending", "SLAPassed", "SLAFailed", "Refunded", "Paid", "Disputed"}

\* the value of bookings[id] for an id never written: every field zero
NoBooking ==
    [tourist |-> NullAddr, operator |-> NullAddr, amount |-> 0, depositTime |-> 0,
     slaDeadline |-> 0, status |-> "Pending", slaVerified |-> FALSE]

NoTx == [op |-> "none"]

OK == "ok"

NoPayout == [tourist |-> 0, operator |-> 0]

----------------------------------------------------------------------------
(* Modifiers and guards *)

\* bookingExists: bookings[bookingId].tourist != address(0)
bookingExists(id) == bookings[id].tourist # NullAddr

validBookingStatusOfAnyBooking(id, requiredStatus) ==
    \E i \in DOMAIN bookings : bookings[i].status = requiredStatus

\* validBookingStatus: bookings[bookingId].status == requiredStatus
validBookingStatus(id, requiredStatus) == bookings[id].status = requiredStatus

\* onlyAuthorizedOracle: authorizedOracles[msg.sender]
onlyAuthorizedOracle(caller) == caller \in authorizedOracles

\* onlyArbiter: arbiters[msg.sender]
onlyArbiter(caller) == caller \in arbiters

\* onlyOwner (Ownable): owner() == msg.sender
onlyOwner(caller) == caller = Owner

\* nonReentrant (ReentrancyGuard): _status != _ENTERED
nonReentrant == ~entered

DeadlineOpenStrict(b) == now < b.slaDeadline

\* verifySLA: block.timestamp <= booking.slaDeadline
DeadlineOpen(b) == now <= b.slaDeadline

DeadlineReachedInclusive(b) == now >= b.slaDeadline

\* handleTimeout: block.timestamp > booking.slaDeadline
DeadlineReached(b) == now > b.slaDeadline

----------------------------------------------------------------------------
(* Payout arithmetic of refundWithPenalty *)

PenaltyAmountRoundedUp(amount) ==
    (amount * PENALTY_PERCENTAGE + BASIS_POINTS - 1) \div BASIS_POINTS

\* (booking.amount * PENALTY_PERCENTAGE) / BASIS_POINTS
PenaltyAmount(amount) == (amount * PENALTY_PERCENTAGE) \div BASIS_POINTS

RefundAmountRoundedShare(amount) ==
    (amount * (BASIS_POINTS - PENALTY_PERCENTAGE)) \div BASIS_POINTS

\* booking.amount - penaltyAmount
RefundAmount(amount) == amount - PenaltyAmount(amount)

----------------------------------------------------------------------------
(* The result of each entry point in the current state: the message of the *)
(* first require that fails, in the order modifiers and body run, or OK.   *)
(* For a payout OK means every require before the external call passed.    *)

CreateBookingResultSelfAllowed(caller, id, operator, value) ==
    IF ~nonReentrant THEN "ReentrancyGuard: reentrant call"
    ELSE IF ~(value > 0) THEN "Deposit amount must be greater than 0"
    ELSE IF ~(operator # NullAddr) THEN "Invalid operator address"
    ELSE IF ~(bookings[id].tourist = NullAddr) THEN "Booking ID already exists"
    ELSE OK

CreateBookingResultReusable(caller, id, operator, value) ==
    IF ~nonReentrant THEN "ReentrancyGuard: reentrant call"
    ELSE IF ~(value > 0) THEN "Deposit amount must be greater than 0"
    ELSE IF ~(operator # NullAddr) THEN "Invalid operator address"
    ELSE IF ~(operator # caller) THEN "Cannot book with yourself"
    ELSE OK

CreateBookingResult(caller, id, operator, value) ==
    IF ~nonReentrant THEN "ReentrancyGuard: reentrant call"
    ELSE IF ~(value > 0) THEN "Deposit amount must be greater than 0"
    ELSE IF ~(operator # NullAddr) THEN "Invalid operator address"
    ELSE IF ~(operator # caller) THEN "Cannot book with yourself"
    ELSE IF ~(bookings[id].tourist = NullAddr) THEN "Booking ID already exists"
    ELSE OK

VerifySLAResultAnyCaller(caller, id) ==
    IF ~bookingExists(id) THEN "Booking does not exist"
    ELSE IF ~validBookingStatus(id, "Pending") THEN "Invalid booking status"
    ELSE IF ~(~bookings[id].slaVerified) THEN "SLA already verified"
    ELSE IF ~DeadlineOpen(bookings[id]) THEN "SLA deadline passed"
    ELSE OK

VerifySLAResultRepeatable(caller, id) ==
    IF ~onlyAuthorizedOracle(caller) THEN "Not authorized oracle"
    ELSE IF ~bookingExists(id) THEN "Booking does not exist"
    ELSE IF ~DeadlineOpen(bookings[id]) THEN "SLA deadline passed"
    ELSE OK

\* variant: the booking is looked up before the caller's role
VerifySLAResultLookupFirst(caller, id) ==
    IF ~bookingExists(id) THEN "Booking does not exist"
    ELSE IF ~validBookingStatus(id, "Pending") THEN "Invalid booking status"
    ELSE IF ~onlyAuthorizedOracle(caller) THEN "Not authorized oracle"
    ELSE IF ~(~bookings[id].slaVerified) THEN "SLA already verified"
    ELSE IF ~DeadlineOpen(bookings[id]) THEN "SLA deadline passed"
    ELSE OK

VerifySLAResult(caller, id) ==
    IF ~onlyAuthorizedOracle(caller) THEN "Not authorized oracle"
    ELSE IF ~bookingExists(id) THEN "Booking does not exist"
    ELSE IF ~validBookingStatus(id, "Pending") THEN "Invalid booking status"
    ELSE IF ~(~bookings[id].slaVerified) THEN "SLA already verified"
    ELSE IF ~DeadlineOpen(bookings[id]) THEN "SLA deadline passed"
    ELSE OK

ReleaseToOperatorResultOperatorOnly(caller, id) ==
    IF ~nonReentrant THEN "ReentrancyGuard: reentrant call"
    ELSE IF ~bookingExists(id) THEN "Booking does not exist"
    ELSE IF ~validBookingStatus(id, "SLAPassed") THEN "Invalid booking status"
    ELSE IF ~bookings[id].slaVerified THEN "SLA not verified"
    ELSE IF ~(caller = bookings[id].operator) THEN "Not authorized"
    ELSE OK

ReleaseToOperatorResult(caller, id) ==
    IF ~nonReentrant THEN "ReentrancyGuard: reentrant call"
    ELSE IF ~bookingExists(id) THEN "Booking does not exist"
    ELSE IF ~validBookingStatus(id, "SLAPassed") THEN "Invalid booking status"
    ELSE IF ~bookings[id].slaVerified THEN "SLA not verified"
    ELSE OK

RefundToTouristResultNoStatus(caller, id) ==
    IF ~nonReentrant THEN "ReentrancyGuard: reentrant call"
    ELSE IF ~bookingExists(id) THEN "Booking does not exist"
    ELSE IF ~bookings[id].slaVerified THEN "SLA not verified"
    ELSE OK

RefundToTouristResult(caller, id) ==
    IF ~nonReentrant THEN "ReentrancyGuard: reentrant call"
    ELSE IF ~bookingExists(id) THEN "Booking does not exist"
    ELSE IF ~validBookingStatus(id, "SLAFailed") THEN "Invalid booking status"
    ELSE IF ~bookings[id].slaVerified THEN "SLA not verified"
    ELSE OK

\* variant: the split is guarded by the verified flag alone
RefundWithPenaltyResultNoStatus(caller, id) ==
    IF ~nonReentrant THEN "ReentrancyGuard: reentrant call"
    ELSE IF ~bookingExists(id) THEN "Booking does not exist"
    ELSE IF ~bookings[id].slaVerified THEN "SLA not verified"
    ELSE OK

RefundWithPenaltyResult(caller, id) ==
    IF ~nonReentrant THEN "ReentrancyGuard: reentrant call"
    ELSE IF ~bookingExists(id) THEN "Booking does not exist"
    ELSE IF ~validBookingStatus(id, "SLAFailed") THEN "Invalid booking status"
    ELSE IF ~bookings[id].slaVerified THEN "SLA not verified"
    ELSE OK

HandleTimeoutResultTouristOnly(caller, id) ==
    IF ~nonReentrant THEN "ReentrancyGuard: reentrant call"
    ELSE IF ~bookingExists(id) THEN "Booking does not exist"
    ELSE IF ~validBookingStatus(id, "Pending") THEN "Invalid booking status"
    ELSE IF ~(caller = bookings[id].tourist) THEN "Only tourist can claim the timeout"
    ELSE IF ~DeadlineReached(bookings[id]) THEN "SLA deadline not reached"
    ELSE IF ~(~bookings[id].slaVerified) THEN "SLA already verified"
    ELSE OK

HandleTimeoutResult(caller, id) ==
    IF ~nonReentrant THEN "ReentrancyGuard: reentrant call"
    ELSE IF ~bookingExists(id) THEN "Booking does not exist"
    ELSE IF ~validBookingStatus(id, "Pending") THEN "Invalid booking status"
    ELSE IF ~DeadlineReached(bookings[id]) THEN "SLA deadline not reached"
    ELSE IF ~(~bookings[id].slaVerified) THEN "SLA already verified"
    ELSE OK

RaiseDisputeResultAnyStatus(caller, id) ==
    IF ~bookingExists(id) THEN "Booking does not exist"
    ELSE IF ~(caller = bookings[id].tourist \/ caller = bookings[id].operator)
        THEN "Only tourist or operator can raise dispute"
    ELSE OK

RaiseDisputeResultAnyCaller(caller, id) ==
    IF ~bookingExists(id) THEN "Booking does not exist"
    ELSE IF ~(bookings[id].status = "SLAPassed" \/ bookings[id].status = "SLAFailed")
        THEN "Can only dispute after SLA verification"
    ELSE OK

\* variant: "after SLA verification" is read off the verified flag
RaiseDisputeResultByFlag(caller, id) ==
    IF ~bookingExists(id) THEN "Booking does not exist"
    ELSE IF ~(caller = bookings[id].tourist \/ caller = bookings[id].operator)
        THEN "Only tourist or operator can raise dispute"
    ELSE IF ~bookings[id].slaVerified
        THEN "Can only dispute after SLA verification"
    ELSE OK

RaiseDisputeResult(caller, id) ==
    IF ~bookingExists(id) THEN "Booking does not exist"
    ELSE IF ~(caller = bookings[id].tourist \/ caller = bookings[id].operator)
        THEN "Only tourist or operator can raise dispute"
    ELSE IF ~(bookings[id].status = "SLAPassed" \/ bookings[id].status = "SLAFailed")
        THEN "Can only dispute after SLA verification"
    ELSE OK

ResolveDisputeResultAnyCaller(caller, id) ==
    IF ~nonReentrant THEN "ReentrancyGuard: reentrant call"
    ELSE IF ~bookingExists(id) THEN "Booking does not exist"
    ELSE IF ~validBookingStatus(id, "Disputed") THEN "Invalid booking status"
    ELSE OK

ResolveDisputeResultAnyStatus(caller, id) ==
    IF ~onlyArbiter(caller) THEN "Not authorized arbiter"
    ELSE IF ~nonReentrant THEN "ReentrancyGuard: reentrant call"
    ELSE IF ~bookingExists(id) THEN "Booking does not exist"
    ELSE OK

ResolveDisputeResult(caller, id) ==
    IF ~onlyArbiter(caller) THEN "Not authorized arbiter"
    ELSE IF ~nonReentrant THEN "ReentrancyGuard: reentrant call"
    ELSE IF ~bookingExists(id) THEN "Booking does not exist"
    ELSE IF ~validBookingStatus(id, "Disputed") THEN "Invalid booking status"
    ELSE OK

AuthorizeOracleResult(caller, oracle) ==
    IF ~onlyOwner(caller) THEN "Ownable: caller is not the owner"
    ELSE IF ~(oracle # NullAddr) THEN "Invalid oracle address"
    ELSE OK

AuthorizeArbiterResult(caller, arbiter) ==
    IF ~onlyOwner(caller) THEN "Ownable: caller is not the owner"
    ELSE IF ~(arbiter # NullAddr) THEN "Invalid arbiter address"
    ELSE OK

RevokeResultAnyCaller(caller, a) == OK

\* revokeOracle, revokeArbiter
RevokeResult(caller, a) ==
    IF ~onlyOwner(caller) THEN "Ownable: caller is not the owner"
    ELSE OK

----------------------------------------------------------------------------
(* Transactions and external calls *)

InFlight == tx.op # "none"

\* a call can be made when no transaction runs, or by the recipient of the
\* transfer in progress (at most MaxNested times per callback)
CanCall == IF InFlight THEN tx.nested < MaxNested ELSE TRUE

\* tx after a call that returned: a call made from a callback is counted
Called == IF InFlight THEN [tx EXCEPT !.nested = @ + 1] ELSE tx

\* the storage a revert of the transaction in flight restores
Snapshot ==
    [bookings |-> bookings, authorizedOracles |-> authorizedOracles,
     arbiters |-> arbiters, balance |-> balance, paidOut |-> paidOut,
     events |-> events, roleEvent |-> roleEvent]

\* recipient.call{value: t.amount}(""): the value leaves the contract
Send(id, t) ==
    /\ balance' = balance - t.amount
    /\ paidOut' = [paidOut EXCEPT ![id][t.to] = @ + t.amount]

StatusKept(old, new) == old

\* the status a payout writes before its first external call
StatusBeforeTransfer(old, new) == new

\* A payout whose requires passed: the status is written, then the transfers
\* run in order, each an external call to the booking's party t.to.
\* After the last transfer the events `emits` are emitted.
Payout(op, id, newStatus, transfers, emits) ==
    /\ bookings' = [bookings EXCEPT
                      ![id].status = StatusBeforeTransfer(bookings[id].status, newStatus)]
    /\ UNCHANGED <<authorizedOracles, arbiters, now, roleEvent>>
    /\ IF transfers = <<>>
       THEN /\ events' = [events EXCEPT ![id] = @ \o emits]
            /\ UNCHANGED <<balance, paidOut, entered, tx>>
       ELSE /\ balance >= Head(transfers).amount
            /\ Send(id, Head(transfers))
            /\ entered' = TRUE
            /\ tx' = [op |-> op, id |-> id, pending |-> transfers, emits |-> emits,
                      nested |-> 0, saved |-> Snapshot]
            /\ UNCHANGED events

\* variant: the record is deleted once the booking is settled
TransferAcceptedDeletingRecord ==
    /\ InFlight
    /\ LET rest == Tail(tx.pending) IN
       IF rest = <<>>
       THEN /\ events' = [events EXCEPT ![tx.id] = @ \o tx.emits]
            /\ bookings' = [bookings EXCEPT ![tx.id] = NoBooking]
            /\ tx' = NoTx
            /\ entered' = FALSE
            /\ UNCHANGED <<authorizedOracles, arbiters, now, balance, paidOut, roleEvent>>
       ELSE /\ balance >= Head(rest).amount
            /\ Send(tx.id, Head(rest))
            /\ tx' = [tx EXCEPT !.pending = rest, !.nested = 0]
            /\ UNCHANGED <<bookings, authorizedOracles, arbiters, now, events, roleEvent,
                           entered>>

\* the recipient returned normally: the next transfer runs, or the
\* transaction ends (nonReentrant releases the lock)
TransferAccepted ==
    /\ InFlight
    /\ LET rest == Tail(tx.pending) IN
       IF rest = <<>>
       THEN /\ events' = [events EXCEPT ![tx.id] = @ \o tx.emits]
            /\ tx' = NoTx
            /\ entered' = FALSE
            /\ UNCHANGED <<bookings, authorizedOracles, arbiters, now, balance, paidOut, roleEvent>>
       ELSE /\ balance >= Head(rest).amount
            /\ Send(tx.id, Head(rest))
            /\ tx' = [tx EXCEPT !.pending = rest, !.nested = 0]
            /\ UNCHANGED <<bookings, authorizedOracles, arbiters, now, events, roleEvent,
                           entered>>

\* the message of the require that follows the transfer in progress, with
\* which the transaction reverts when the recipient rejects the transfer
TransferFailure ==
    LET to == Head(tx.pending).to
    IN  CASE tx.op = "releaseToOperator" -> "Transfer to operator failed"
          [] tx.op = "refundToTourist" -> "Transfer to tourist failed"
          [] tx.op = "refundWithPenalty" /\ to = "operator" -> "Penalty transfer to operator failed"
          [] tx.op = "refundWithPenalty" /\ to = "tourist" -> "Refund transfer to tourist failed"
          [] tx.op = "handleTimeout" -> "Timeout refund failed"
          [] tx.op = "resolveDispute" /\ to = "operator" -> "Dispute resolution payment failed"
          [] tx.op = "resolveDispute" /\ to = "tourist" -> "Dispute resolution refund failed"

TransferRejectedLastOnly ==
    /\ InFlight
    /\ bookings' = tx.saved.bookings
    /\ authorizedOracles' = tx.saved.authorizedOracles
    /\ arbiters' = tx.saved.arbiters
    /\ balance' = balance + Head(tx.pending).amount
    /\ paidOut' = [paidOut EXCEPT ![tx.id][Head(tx.pending).to] = @ - Head(tx.pending).amount]
    /\ events' = tx.saved.events
    /\ roleEvent' = tx.saved.roleEvent
    /\ entered' = FALSE
    /\ tx' = NoTx
    /\ UNCHANGED now

\* the recipient reverted (or the call ran out of gas): require(success)
\* fails and the whole transaction reverts
TransferRejected ==
    /\ InFlight
    /\ bookings' = tx.saved.bookings
    /\ authorizedOracles' = tx.saved.authorizedOracles
    /\ arbiters' = tx.saved.arbiters
    /\ balance' = tx.saved.balance
    /\ paidOut' = tx.saved.paidOut
    /\ events' = tx.saved.events
    /\ roleEvent' = tx.saved.roleEvent
    /\ entered' = FALSE
    /\ tx' = NoTx
    /\ UNCHANGED now

----------------------------------------------------------------------------
(* Entry points *)

\* emit Refunded(bookingId, booking.tourist, amount)
RefundedEvent(id, amount) == <<"Refunded", bookings[id].tourist, amount>>

\* emit PaidOut(bookingId, booking.operator, amount)
PaidOutEvent(id, amount) == <<"PaidOut", bookings[id].operator, amount>>

NewBookingDeadlineInSeconds(caller, operator, value) ==
    [tourist |-> caller, operator |-> operator, amount |-> value,
     depositTime |-> now, slaDeadline |-> now + SLA_TIMEOUT_HOURS,
     status |-> "Pending", slaVerified |-> FALSE]

\* the Booking that createBooking stores
NewBooking(caller, operator, value) ==
    [tourist |-> caller, operator |-> operator, amount |-> value,
     depositTime |-> now, slaDeadline |-> now + (SLA_TIMEOUT_HOURS * HOUR),
     status |-> "Pending", slaVerified |-> FALSE]

createBooking(caller, id, operator, value) ==
    /\ CanCall
    /\ CreateBookingResult(caller, id, operator, value) = OK
    /\ bookings' = [bookings EXCEPT ![id] = NewBooking(caller, operator, value)]
    /\ balance' = balance + value
    /\ events' = [events EXCEPT ![id] = Append(@, <<"DepositMade", caller, operator, value>>)]
    /\ tx' = Called
    /\ UNCHANGED <<authorizedOracles, arbiters, now, paidOut, roleEvent, entered>>

VerifiedStatusSwapped(slaPassed) == IF slaPassed THEN "SLAFailed" ELSE "SLAPassed"

\* the status verifySLA writes
VerifiedStatus(slaPassed) == IF slaPassed THEN "SLAPassed" ELSE "SLAFailed"

\* variant: the outcome is stored while the verified flag is left unset
verifySLAWithoutFlag(caller, id, slaPassed) ==
    /\ CanCall
    /\ VerifySLAResult(caller, id) = OK
    /\ bookings' = [bookings EXCEPT ![id].status = VerifiedStatus(slaPassed)]
    /\ events' = [events EXCEPT ![id] =
                    Append(@, IF slaPassed THEN <<"SLAPassed", bookings[id].operator>>
                                           ELSE <<"SLAFailed", bookings[id].tourist>>)]
    /\ tx' = Called
    /\ UNCHANGED <<authorizedOracles, arbiters, now, balance, paidOut, roleEvent, entered>>

verifySLA(caller, id, slaPassed) ==
    /\ CanCall
    /\ VerifySLAResult(caller, id) = OK
    /\ bookings' = [bookings EXCEPT
                      ![id].slaVerified = TRUE,
                      ![id].status = VerifiedStatus(slaPassed)]
    /\ events' = [events EXCEPT ![id] =
                    Append(@, IF slaPassed THEN <<"SLAPassed", bookings[id].operator>>
                                           ELSE <<"SLAFailed", bookings[id].tourist>>)]
    /\ tx' = Called
    /\ UNCHANGED <<authorizedOracles, arbiters, now, balance, paidOut, roleEvent, entered>>

releaseToOperator(caller, id) ==
    /\ CanCall
    /\ ReleaseToOperatorResult(caller, id) = OK
    /\ Payout("releaseToOperator", id, "Paid",
              <<[to |-> "operator", amount |-> bookings[id].amount]>>,
              <<PaidOutEvent(id, bookings[id].amount)>>)

refundToTourist(caller, id) ==
    /\ CanCall
    /\ RefundToTouristResult(caller, id) = OK
    /\ Payout("refundToTourist", id, "Refunded",
              <<[to |-> "tourist", amount |-> bookings[id].amount]>>,
              <<RefundedEvent(id, bookings[id].amount)>>)

PenaltyEventsRefundOnly(id, refundAmount, penaltyAmount) ==
    <<RefundedEvent(id, refundAmount)>>

\* emit Refunded(..., refundAmount); emit PaidOut(..., penaltyAmount)
PenaltyEvents(id, refundAmount, penaltyAmount) ==
    <<RefundedEvent(id, refundAmount), PaidOutEvent(id, penaltyAmount)>>

refundWithPenalty(caller, id) ==
    /\ CanCall
    /\ RefundWithPenaltyResult(caller, id) = OK
    /\ LET penaltyAmount == PenaltyAmount(bookings[id].amount)
           refundAmount == RefundAmount(bookings[id].amount)
       IN  Payout("refundWithPenalty", id, "Refunded",
                  (IF penaltyAmount > 0
                   THEN <<[to |-> "operator", amount |-> penaltyAmount]>> ELSE <<>>)
                  \o (IF refundAmount > 0
                      THEN <<[to |-> "tourist", amount |-> refundAmount]>> ELSE <<>>),
                  PenaltyEvents(id, refundAmount, penaltyAmount))

\* variant: the timeout refund sends the contract's whole balance
handleTimeoutRefundingBalance(caller, id) ==
    /\ CanCall
    /\ HandleTimeoutResult(caller, id) = OK
    /\ Payout("handleTimeout", id, "Refunded",
              <<[to |-> "tourist", amount |-> balance]>>,
              <<RefundedEvent(id, balance)>>)

handleTimeout(caller, id) ==
    /\ CanCall
    /\ HandleTimeoutResult(caller, id) = OK
    /\ Payout("handleTimeout", id, "Refunded",
              <<[to |-> "tourist", amount |-> bookings[id].amount]>>,
              <<RefundedEvent(id, bookings[id].amount)>>)

raiseDisputeWithoutRevert(caller, id) ==
    /\ CanCall
    /\ RaiseDisputeResult(caller, id) # "Booking does not exist"
    /\ bookings' = [bookings EXCEPT ![id].status = "Disputed"]
    /\ events' = [events EXCEPT ![id] =
                    Append(@, <<"Disputed", bookings[id].tourist, bookings[id].operator>>)]
    /\ tx' = Called
    /\ UNCHANGED <<authorizedOracles, arbiters, now, balance, paidOut, roleEvent, entered>>

raiseDispute(caller, id) ==
    /\ CanCall
    /\ RaiseDisputeResult(caller, id) = OK
    /\ bookings' = [bookings EXCEPT ![id].status = "Disputed"]
    /\ events' = [events EXCEPT ![id] =
                    Append(@, <<"Disputed", bookings[id].tourist, bookings[id].operator>>)]
    /\ tx' = Called
    /\ UNCHANGED <<authorizedOracles, arbiters, now, balance, paidOut, roleEvent, entered>>

resolveDispute(caller, id, operatorWins) ==
    /\ CanCall
    /\ ResolveDisputeResult(caller, id) = OK
    /\ IF operatorWins
       THEN Payout("resolveDispute", id, "Paid",
                   <<[to |-> "operator", amount |-> bookings[id].amount]>>,
                   <<PaidOutEvent(id, bookings[id].amount),
                     <<"DisputeResolved", operatorWins, bookings[id].amount>> >>)
       ELSE Payout("resolveDispute", id, "Refunded",
                   <<[to |-> "tourist", amount |-> bookings[id].amount]>>,
                   <<RefundedEvent(id, bookings[id].amount),
                     <<"DisputeResolved", operatorWins, bookings[id].amount>> >>)

authorizeOracle(caller, oracle) ==
    /\ CanCall
    /\ AuthorizeOracleResult(caller, oracle) = OK
    /\ authorizedOracles' = authorizedOracles \cup {oracle}
    /\ roleEvent' = <<"OracleAuthorized", oracle>>
    /\ tx' = Called
    /\ UNCHANGED <<bookings, arbiters, now, balance, paidOut, events, entered>>

\* variant: revoking an oracle voids the verifications still open
revokeOracleVoidingVerifications(caller, oracle) ==
    /\ CanCall
    /\ RevokeResult(caller, oracle) = OK
    /\ authorizedOracles' = authorizedOracles \ {oracle}
    /\ bookings' = [id \in DOMAIN bookings |->
                       IF bookings[id].status \in {"SLAPassed", "SLAFailed"}
                       THEN [bookings[id] EXCEPT !.status = "Pending", !.slaVerified = FALSE]
                       ELSE bookings[id]]
    /\ roleEvent' = <<"OracleRevoked", oracle>>
    /\ tx' = Called
    /\ UNCHANGED <<arbiters, now, balance, paidOut, events, entered>>

revokeOracle(caller, oracle) ==
    /\ CanCall
    /\ RevokeResult(caller, oracle) = OK
    /\ authorizedOracles' = authorizedOracles \ {oracle}
    /\ roleEvent' = <<"OracleRevoked", oracle>>
    /\ tx' = Called
    /\ UNCHANGED <<bookings, arbiters, now, balance, paidOut, events, entered>>

authorizeArbiter(caller, arbiter) ==
    /\ CanCall
    /\ AuthorizeArbiterResult(caller, arbiter) = OK
    /\ arbiters' = arbiters \cup {arbiter}
    /\ roleEvent' = <<"ArbiterAuthorized", arbiter>>
    /\ tx' = Called
    /\ UNCHANGED <<bookings, authorizedOracles, now, balance, paidOut, events, entered>>

revokeArbiter(caller, arbiter) ==
    /\ CanCall
    /\ RevokeResult(caller, arbiter) = OK
    /\ arbiters' = arbiters \ {arbiter}
    /\ roleEvent' = <<"ArbiterRevoked", arbiter>>
    /\ tx' = Called
    /\ UNCHANGED <<bookings, authorizedOracles, now, balance, paidOut, events, entered>>

-----------------------------------------------------------------------------
(* View functions: what a call returns in the current state, *)
(* <<"revert", message>> or <<"return", value>>             *)

getBooking(id) ==
    IF ~(bookings[id].tourist # NullAddr) THEN <<"revert", "Booking does not exist">>
    ELSE <<"return", bookings[id]>>

\* variant: timed out from the deadline instant on
isTimedOutAtDeadline(id) ==
    LET booking == bookings[id]
    IN  <<"return", now >= booking.slaDeadline /\ ~booking.slaVerified>>

isTimedOut(id) ==
    LET booking == bookings[id]
    IN  <<"return", now > booking.slaDeadline /\ ~booking.slaVerified>>

getTimeRemainingUnclamped(id) ==
    LET booking == bookings[id]
    IN  <<"return", booking.slaDeadline - now>>

getTimeRemaining(id) ==
    LET booking == bookings[id]
    IN  IF now >= booking.slaDeadline THEN <<"return", 0>>
        ELSE <<"return", booking.slaDeadline - now>>

-----------------------------------------------------------------------------
\* the clock advances between transactions
Tick ==
    /\ ~InFlight
    /\ \E t \in Instants : t > now /\ now' = t
    /\ UNCHANGED <<bookings, authorizedOracles, arbiters, balance, paidOut, events,
                   roleEvent, entered, tx>>

----------------------------------------------------------------------------
(* Specification *)

Init ==
    /\ bookings = [id \in Ids |-> NoBooking]
    /\ authorizedOracles = {}
    /\ arbiters = {Owner}
    /\ now = 0
    /\ balance = 0
    /\ paidOut = [id \in Ids |-> NoPayout]
    /\ events = [id \in Ids |-> <<>>]
    /\ roleEvent = <<>>
    /\ entered = FALSE
    /\ tx = NoTx

Next ==
    \/ \E caller \in Addr, id \in Ids, operator \in Addr \cup {NullAddr}, value \in Values :
          createBooking(caller, id, operator, value)
    \/ \E caller \in Addr, id \in Ids, slaPassed \in BOOLEAN : verifySLA(caller, id, slaPassed)
    \/ \E caller \in Addr, id \in Ids : releaseToOperator(caller, id)
    \/ \E caller \in Addr, id \in Ids : refundToTourist(caller, id)
    \/ \E caller \in Addr, id \in Ids : refundWithPenalty(caller, id)
    \/ \E caller \in Addr, id \in Ids : handleTimeout(caller, id)
    \/ \E caller \in Addr, id \in Ids : raiseDispute(caller, id)
    \/ \E caller \in Addr, id \in Ids, operatorWins \in BOOLEAN :
          resolveDispute(caller, id, operatorWins)
    \/ \E caller \in Addr, a \in OracleInputs : authorizeOracle(caller, a)
    \/ \E caller \in Addr, a \in OracleInputs : revokeOracle(caller, a)
    \/ \E caller \in Addr, a \in ArbiterInputs : authorizeArbiter(caller, a)
    \/ \E caller \in Addr, a \in ArbiterInputs : revokeArbiter(caller, a)
    \/ TransferAccepted
    \/ TransferRejected
    \/ Tick

Spec == Init /\ [][Next]_vars

\* The role operations alone, called by every address for every address.
NextRoles ==
    \/ \E caller \in Addr, a \in Addr \cup {NullAddr} : authorizeOracle(caller, a)
    \/ \E caller \in Addr, a \in Addr \cup {NullAddr} : revokeOracle(caller, a)
    \/ \E caller \in Addr, a \in Addr \cup {NullAddr} : authorizeArbiter(caller, a)
    \/ \E caller \in Addr, a \in Addr \cup {NullAddr} : revokeArbiter(caller, a)

SpecRoles == Init /\ [][NextRoles]_vars

\* Two bookings side by side.  Address 2 books both with operator 3, the
\* owner appoints itself oracle, and every address calls every booking
\* operation on both ids.
TwoIds == {"b1", "b2"}

InitTwo ==
    /\ bookings = [id \in TwoIds |-> NoBooking]
    /\ authorizedOracles = {}
    /\ arbiters = {Owner}
    /\ now = 0
    /\ balance = 0
    /\ paidOut = [id \in TwoIds |-> NoPayout]
    /\ events = [id \in TwoIds |-> <<>>]
    /\ roleEvent = <<>>
    /\ entered = FALSE
    /\ tx = NoTx

NextTwo ==
    \/ \E id \in TwoIds, value \in Values : createBooking(2, id, 3, value)
    \/ \E caller \in Addr, id \in TwoIds, slaPassed \in BOOLEAN : verifySLA(caller, id, slaPassed)
    \/ \E caller \in Addr, id \in TwoIds : releaseToOperator(caller, id)
    \/ \E caller \in Addr, id \in TwoIds : refundToTourist(caller, id)
    \/ \E caller \in Addr, id \in TwoIds : refundWithPenalty(caller, id)
    \/ \E caller \in Addr, id \in TwoIds : handleTimeout(caller, id)
    \/ \E caller \in Addr, id \in TwoIds : raiseDispute(caller, id)
    \/ \E caller \in Addr, id \in TwoIds, operatorWins \in BOOLEAN :
          resolveDispute(caller, id, operatorWins)
    \/ authorizeOracle(Owner, Owner)
    \/ TransferAccepted
    \/ TransferRejected
    \/ Tick

SpecTwo == InitTwo /\ [][NextTwo]_vars

\* One booking whose parties are fixed (tourist 2, operator 3), every address
\* calling every operation on it, the owner granting and withdrawing the
\* oracle role of the last address and its own arbiter role.  Every
\* transaction in flight ends, every transfer is accepted in the end, the
\* clock advances, and a call that can settle the booking again and again is
\* made at some point.
NextLive ==
    \/ \E id \in Ids, value \in Values : createBooking(2, id, 3, value)
    \/ \E caller \in Addr, id \in Ids, slaPassed \in BOOLEAN : verifySLA(caller, id, slaPassed)
    \/ \E caller \in Addr, id \in Ids : releaseToOperator(caller, id)
    \/ \E caller \in Addr, id \in Ids : refundToTourist(caller, id)
    \/ \E caller \in Addr, id \in Ids : refundWithPenalty(caller, id)
    \/ \E caller \in Addr, id \in Ids : handleTimeout(caller, id)
    \/ \E caller \in Addr, id \in Ids : raiseDispute(caller, id)
    \/ \E caller \in Addr, id \in Ids, operatorWins \in BOOLEAN :
          resolveDispute(caller, id, operatorWins)
    \/ authorizeOracle(Owner, NumAddr)
    \/ revokeOracle(Owner, NumAddr)
    \/ authorizeArbiter(Owner, Owner)
    \/ revokeArbiter(Owner, Owner)
    \/ TransferAccepted
    \/ TransferRejected
    \/ Tick

LiveFairness ==
    /\ WF_vars(Tick)
    /\ SF_vars(TransferAccepted)
    /\ SF_vars(TransferAccepted /\ ~InFlight')
    /\ SF_vars(\E caller \in Addr, id \in Ids : handleTimeout(caller, id))
    /\ SF_vars(\E caller \in Addr, id \in Ids : releaseToOperator(caller, id))
    /\ SF_vars(\E caller \in Addr, id \in Ids : refundToTourist(caller, id))
    /\ SF_vars(\E caller \in Addr, id \in Ids, operatorWins \in BOOLEAN :
                  resolveDispute(caller, id, operatorWins))
    /\ SF_vars(authorizeArbiter(Owner, Owner))

SpecLive == Init /\ [][NextLive]_vars /\ LiveFairness

----------------------------------------------------------------------------
(* Vocabulary of the properties *)

Terminal(status) == status \in {"Refunded", "Paid"}

\* the value transferred out of escrow for a booking
TotalPaidOut(id) == paidOut[id].tourist + paidOut[id].operator

\* storage as of the last completed transaction
CommittedBookings == IF InFlight THEN tx.saved.bookings ELSE bookings

\* a step that undoes the transaction in flight
Reverts == InFlight /\ ~InFlight' /\ bookings' = tx.saved.bookings /\ paidOut' = tx.saved.paidOut

\* a step that completes the transaction in flight
Commits == InFlight /\ ~InFlight' /\ ~Reverts

PayoutResults(caller, id) ==
    {ReleaseToOperatorResult(caller, id), RefundToTouristResult(caller, id),
     RefundWithPenaltyResult(caller, id), HandleTimeoutResult(caller, id)}

AllResults(caller, id) ==
    PayoutResults(caller, id) \cup
    {VerifySLAResult(caller, id), RaiseDisputeResult(caller, id),
     ResolveDisputeResult(caller, id)}

TransitionGraph ==
    {<<"Pending", "SLAPassed">>, <<"Pending", "SLAFailed">>, <<"Pending", "Refunded">>,
     <<"SLAPassed", "Paid">>, <<"SLAPassed", "Disputed">>,
     <<"SLAFailed", "Refunded">>, <<"SLAFailed", "Disputed">>,
     <<"Disputed", "Paid">>, <<"Disputed", "Refunded">>}

----------------------------------------------------------------------------
(* C1 *)

\* C1: value conservation.  Between transactions, the value transferred out
\* of escrow for a booking is 0 while its status is Pending, SLAPassed,
\* SLAFailed or Disputed, and exactly its amount (tourist share + operator
\* share) once its status is Refunded or Paid; while a payout is in flight
\* no more than the amount has left.
C1_ValueConservation ==
    /\ ~InFlight =>
         \A id \in Ids :
            IF bookingExists(id) /\ Terminal(bookings[id].status)
            THEN TotalPaidOut(id) = bookings[id].amount
            ELSE TotalPaidOut(id) = 0
    /\ InFlight => TotalPaidOut(tx.id) <= bookings[tx.id].amount

\* a booking settled by refundWithPenalty with both shares non-zero
C1_Witness ==
    /\ ~InFlight
    /\ \E id \in Ids :
          /\ bookings[id].status = "Refunded"
          /\ paidOut[id].operator > 0
          /\ paidOut[id].tourist > 0

----------------------------------------------------------------------------
(* C2 *)

\* C2: every change of a booking's status, by any call of any caller at any
\* time (calls made from a transfer callback included), is an edge of the
\* transition graph; the only other change of the stored status is the
\* revert of a failed transaction, which restores the status the
\* transaction started from.
C2_StatusFollowsGraph ==
    [][\A id \in Ids :
          (bookings'[id].status # bookings[id].status /\ ~Reverts)
             => <<bookings[id].status, bookings'[id].status>> \in TransitionGraph]_vars

\* a verified booking refunded in full, the oracle revoked since
C2_Witness ==
    /\ ~InFlight
    /\ \E id \in Ids :
          /\ bookings[id].status = "Refunded"
          /\ bookings[id].slaVerified
          /\ paidOut[id].tourist = bookings[id].amount
          /\ authorizedOracles = {}

----------------------------------------------------------------------------
(* C3 *)

C3_AllCallsFail ==
    \A id \in Ids :
       (bookingExists(id) /\ Terminal(CommittedBookings[id].status)) =>
          \A caller \in Addr :
             /\ OK \notin AllResults(caller, id)
             /\ ~entered => PayoutResults(caller, id) = {"Invalid booking status"}

C3_NothingChanges ==
    \A id \in Ids :
       (bookingExists(id) /\ Terminal(CommittedBookings[id].status)) =>
          /\ bookings'[id] = bookings[id]
          /\ paidOut'[id] = paidOut[id]

\* C3: terminal states are absorbing and pay out once.  Once a transaction
\* has left a booking Refunded or Paid, every call of releaseToOperator,
\* refundToTourist, refundWithPenalty, handleTimeout, verifySLA, raiseDispute
\* or resolveDispute on it fails, the four payout entry points with
\* "Invalid booking status"; the record never changes again and no further
\* value is transferred for it.
C3_TerminalAbsorbing == [] C3_AllCallsFail /\ [][C3_NothingChanges]_vars

\* a booking paid by releaseToOperator, the transaction completed
C3_Witness ==
    /\ ~InFlight
    /\ \E id \in Ids :
          /\ bookings[id].status = "Paid"
          /\ paidOut[id].operator = bookings[id].amount
          /\ ReleaseToOperatorResult(bookings[id].operator, id) = "Invalid booking status"

----------------------------------------------------------------------------
(* C4 *)

C4_TerminalWhileTransferRuns ==
    /\ \A id \in Ids : TotalPaidOut(id) <= bookings[id].amount
    /\ InFlight =>
         /\ entered
         /\ Terminal(bookings[tx.id].status)
         /\ \A required \in BookingStatus \ {"Refunded", "Paid"} :
               ~validBookingStatus(tx.id, required)
         /\ \A caller \in Addr, id \in Ids :
               /\ OK \notin PayoutResults(caller, id)
               /\ ResolveDisputeResult(caller, id) # OK

C4_PayoutStartsOnce == (~InFlight /\ InFlight') => paidOut[tx'.id] = NoPayout

\* C4: two payouts of one booking cannot both succeed.  While the external
\* transfer of releaseToOperator, refundToTourist, refundWithPenalty,
\* handleTimeout or resolveDispute runs, the booking's status is already
\* terminal and the reentrancy lock is held, so no payout called by the
\* recipient from inside the callback passes its requires; a payout starts
\* only for a booking nothing has been paid for, and never more than the
\* booking's amount leaves escrow.
C4_NoDoublePayout == [] C4_TerminalWhileTransferRuns /\ [][C4_PayoutStartsOnce]_vars

\* the refund transfer of refundWithPenalty is running, after the penalty
\* transfer, and its recipient has called into the contract
C4_Witness ==
    /\ InFlight
    /\ tx.op = "refundWithPenalty"
    /\ Len(tx.pending) = 1
    /\ paidOut[tx.id].operator > 0
    /\ tx.nested = 1

----------------------------------------------------------------------------
(* C5 *)

\* C5: role-gated entry points.  verifySLA passes its requires only for a
\* caller that is in authorizedOracles at the time of the call, and
\* resolveDispute only for a caller then in arbiters; for every other caller
\* (one authorized earlier and revoked since included) they fail with
\* "Not authorized oracle" / "Not authorized arbiter", whatever the booking.
C5_RoleGated ==
    \A caller \in Addr, id \in Ids :
       /\ caller \notin authorizedOracles => VerifySLAResult(caller, id) = "Not authorized oracle"
       /\ caller \notin arbiters => ResolveDisputeResult(caller, id) = "Not authorized arbiter"
       /\ VerifySLAResult(caller, id) = OK => caller \in authorizedOracles
       /\ ResolveDisputeResult(caller, id) = OK => caller \in arbiters

\* a booking verified by an oracle and then disputed; the oracle and the
\* owner's arbiter role have been revoked since
C5_Witness ==
    /\ ~InFlight
    /\ \E id \in Ids : bookings[id].status = "Disputed" /\ bookings[id].slaVerified
    /\ authorizedOracles = {}
    /\ Owner \notin arbiters

----------------------------------------------------------------------------
(* C6 *)

\* C6: deadline boundary of verification.  On an existing Pending,
\* unverified booking the verifySLA of an authorized oracle passes whenever
\* block.timestamp <= slaDeadline (the deadline instant included) and fails
\* with "SLA deadline passed" whenever block.timestamp > slaDeadline.
C6_VerifyDeadline ==
    \A caller \in Addr, id \in Ids :
       (/\ caller \in authorizedOracles
        /\ bookingExists(id)
        /\ bookings[id].status = "Pending"
        /\ ~bookings[id].slaVerified)
       => /\ now <= bookings[id].slaDeadline => VerifySLAResult(caller, id) = OK
          /\ now > bookings[id].slaDeadline => VerifySLAResult(caller, id) = "SLA deadline passed"

\* an oracle can verify a Pending booking exactly at its deadline
C6_Witness ==
    \E caller \in authorizedOracles, id \in Ids :
       /\ bookingExists(id)
       /\ bookings[id].status = "Pending"
       /\ now = bookings[id].slaDeadline
       /\ VerifySLAResult(caller, id) = OK

----------------------------------------------------------------------------
(* C7 *)

\* C7: verification and timeout are mutually exclusive.  In no state, at no
\* time, do verifySLA (by any caller) and handleTimeout (by any caller) both
\* pass their requires on one booking; once a verification is recorded no
\* handleTimeout passes, and once a timeout refunded no verifySLA passes.
C7_VerifyXorTimeout ==
    \A id \in Ids, c1 \in Addr, c2 \in Addr :
       /\ ~(VerifySLAResult(c1, id) = OK /\ HandleTimeoutResult(c2, id) = OK)
       /\ bookings[id].slaVerified => HandleTimeoutResult(c2, id) # OK
       /\ bookings[id].status = "Refunded" => VerifySLAResult(c1, id) # OK

\* one second after the deadline of a Pending booking, an oracle authorized:
\* the timeout passes, the verification does not
C7_Witness ==
    \E caller \in authorizedOracles, id \in Ids :
       /\ bookingExists(id)
       /\ bookings[id].status = "Pending"
       /\ now = bookings[id].slaDeadline + 1
       /\ HandleTimeoutResult(caller, id) = OK
       /\ VerifySLAResult(caller, id) = "SLA deadline passed"

----------------------------------------------------------------------------
(* C8 *)

\* C8: handleTimeout on a booking that an oracle verified, called after the
\* booking's deadline, fails with "SLA already verified".
C8_TimeoutAfterVerification ==
    \A caller \in Addr, id \in Ids :
       (/\ ~entered
        /\ bookingExists(id)
        /\ bookings[id].slaVerified
        /\ now > bookings[id].slaDeadline)
       => HandleTimeoutResult(caller, id) = "SLA already verified"

----------------------------------------------------------------------------
(* C9 *)

\* C9: handleTimeout on an existing Pending booking fails with
\* "SLA deadline not reached" whenever block.timestamp <= slaDeadline (the
\* deadline instant included), for every caller.
C9_TimeoutBeforeDeadline ==
    \A caller \in Addr, id \in Ids :
       (/\ ~entered
        /\ bookingExists(id)
        /\ bookings[id].status = "Pending"
        /\ now <= bookings[id].slaDeadline)
       => HandleTimeoutResult(caller, id) = "SLA deadline not reached"

\* a Pending booking exactly at its deadline, holding its whole deposit
C9_Witness ==
    \E id \in Ids :
       /\ ~entered
       /\ bookingExists(id)
       /\ bookings[id].status = "Pending"
       /\ now = bookings[id].slaDeadline
       /\ balance = bookings[id].amount
       /\ HandleTimeoutResult(bookings[id].tourist, id) = "SLA deadline not reached"

----------------------------------------------------------------------------
(* C10 *)

C10_AnyCallerPasses ==
    \A caller \in Addr, id \in Ids :
       (/\ ~entered
        /\ bookingExists(id)
        /\ bookings[id].status = "Pending"
        /\ ~bookings[id].slaVerified
        /\ now > bookings[id].slaDeadline)
       => HandleTimeoutResult(caller, id) = OK

C10_TimeoutRefundsTourist ==
    /\ (~InFlight /\ InFlight' /\ tx'.op = "handleTimeout") =>
          /\ Len(tx'.pending) = 1
          /\ Head(tx'.pending) = [to |-> "tourist", amount |-> bookings[tx'.id].amount]
    /\ (Commits /\ tx.op = "handleTimeout") =>
          /\ bookings'[tx.id].status = "Refunded"
          /\ paidOut'[tx.id] = [tourist |-> bookings[tx.id].amount, operator |-> 0]
          /\ balance' = tx.saved.balance - bookings[tx.id].amount

\* C10: permissionless timeout refund.  On a booking still Pending and
\* unverified, once block.timestamp > slaDeadline, handleTimeout passes its
\* requires for every caller, whatever its role; the transfer it makes is the
\* full amount to the tourist, and when the tourist's address accepts it the
\* transaction ends with status Refunded and the amount out of escrow.
C10_PermissionlessTimeout == [] C10_AnyCallerPasses /\ [][C10_TimeoutRefundsTourist]_vars

\* a timeout refund has completed: the unverified booking is Refunded, the
\* tourist has the whole amount, and some address is neither a party of the
\* booking nor the owner, an oracle or an arbiter
C10_Witness ==
    /\ ~InFlight
    /\ \E id \in Ids :
          /\ bookings[id].status = "Refunded"
          /\ ~bookings[id].slaVerified
          /\ paidOut[id].tourist = bookings[id].amount
          /\ balance = 0
          /\ \E stranger \in Addr :
                stranger \notin ({bookings[id].tourist, bookings[id].operator, Owner}
                                   \cup authorizedOracles \cup arbiters)

----------------------------------------------------------------------------
(* C11 *)

\* C11: a second verifySLA by an authorized oracle on a booking whose
\* verification is already recorded fails with "SLA already verified",
\* whatever outcome it carries (the result does not depend on it).
C11_SecondVerification ==
    \A caller \in Addr, id \in Ids :
       (/\ caller \in authorizedOracles
        /\ bookingExists(id)
        /\ bookings[id].slaVerified)
       => VerifySLAResult(caller, id) = "SLA already verified"

-----------------------------------------------------------------------------
(* C12 *)

\* the SLAPassed / SLAFailed events emitted for a booking so far
VerificationEvents(id) ==
    {i \in 1..Len(events[id]) : events[id][i][1] \in {"SLAPassed", "SLAFailed"}}

C12_VerifiedOnce ==
    \A id \in Ids :
       /\ bookings[id].slaVerified =>
             \A caller \in Addr : VerifySLAResult(caller, id) # OK
       /\ Cardinality(VerificationEvents(id)) = IF bookings[id].slaVerified THEN 1 ELSE 0

C12_FlagStep ==
    \A id \in Ids :
       /\ bookings[id].slaVerified => bookings'[id].slaVerified
       /\ (~bookings[id].slaVerified /\ bookings'[id].slaVerified) =>
             \E caller \in Addr, slaPassed \in BOOLEAN : verifySLA(caller, id, slaPassed)

\* C12: slaVerified of a booking goes from false to true exactly once.  The
\* only step that sets it is a verifySLA that passed its requires, no step
\* (a reverted payout included) sets it back to false, once it is true
\* verifySLA on that booking fails for every caller, and the booking's log
\* holds one verification event when the flag is set and none before.
C12_VerifiedFlag == [] C12_VerifiedOnce /\ [][C12_FlagStep]_vars

\* a verified booking whose deadline is still open, with an authorized oracle
\* at hand: a second verification is attempted in the conditions of the first
C12_Witness ==
    \E id \in Ids, caller \in authorizedOracles :
       /\ bookings[id].slaVerified
       /\ DeadlineOpen(bookings[id])
       /\ Len(events[id]) = 2
       /\ VerifySLAResult(caller, id) # OK

-----------------------------------------------------------------------------
(* C13 *)

\* the operator arguments of createBooking: an address or address(0)
OperatorInputs == Addr \cup {NullAddr}

C13_Rejected ==
    \A caller \in Addr, id \in Ids, operator \in OperatorInputs, value \in Values :
       ~entered =>
          /\ value = 0 =>
                CreateBookingResult(caller, id, operator, value)
                   = "Deposit amount must be greater than 0"
          /\ (value > 0 /\ operator = NullAddr) =>
                CreateBookingResult(caller, id, operator, value) = "Invalid operator address"
          /\ (value > 0 /\ operator = caller) =>
                CreateBookingResult(caller, id, operator, value) = "Cannot book with yourself"

C13_Stored ==
    \A id \in Ids :
       bookingExists(id) =>
          /\ bookings[id].amount > 0
          /\ bookings[id].operator # NullAddr
          /\ bookings[id].operator # bookings[id].tourist

C13_NoEffect ==
    (/\ ~Reverts
     /\ \/ balance' > balance
        \/ \E id \in Ids : ~bookingExists(id) /\ bookingExists(id)'
        \/ \E id \in Ids : Len(events'[id]) = Len(events[id]) + 1
                             /\ events'[id][Len(events'[id])][1] = "DepositMade") =>
       \E caller \in Addr, id \in Ids :
          \E operator \in Addr \ {caller}, value \in Values \ {0} :
             /\ CreateBookingResult(caller, id, operator, value) = OK
             /\ createBooking(caller, id, operator, value)

\* C13: called outside a running payout, createBooking fails with "Deposit
\* amount must be greater than 0" when msg.value is 0 (whatever the operator),
\* and, for a positive value, with "Invalid operator address" when the operator
\* is address(0) and "Cannot book with yourself" when it is the caller.  A
\* failing call is no step: a booking appears, DepositMade is emitted, or the
\* contract's balance grows (other than by undoing a payout whose transfer
\* failed), only by a createBooking that passed its requires, with a positive
\* value and an operator that is neither address(0) nor the caller, so every
\* stored booking has such fields.
C13_InvalidInput == [] (C13_Rejected /\ C13_Stored) /\ [][C13_NoEffect]_vars

\* nothing is held and the id is free: the three invalid calls are rejected
\* where the same call with valid arguments would be accepted
C13_Witness ==
    \E caller \in Addr, id \in Ids, operator \in Addr :
       /\ ~bookingExists(id)
       /\ balance = 0
       /\ now > 0
       /\ CreateBookingResult(caller, id, operator, 100) = OK
       /\ CreateBookingResult(caller, id, operator, 0) # OK
       /\ CreateBookingResult(caller, id, NullAddr, 100) # OK
       /\ CreateBookingResult(caller, id, caller, 100) # OK

-----------------------------------------------------------------------------
(* C14 *)

C14_Duplicate ==
    \A id \in Ids :
       bookingExists(id) =>
          /\ \A caller \in Addr, operator \in OperatorInputs, value \in Values :
                LET result == CreateBookingResult(caller, id, operator, value)
                IN  IF ~entered /\ value > 0 /\ operator \notin {NullAddr, caller}
                    THEN result = "Booking ID already exists"
                    ELSE result # OK
          /\ Cardinality({i \in 1..Len(events[id]) : events[id][i][1] = "DepositMade"}) = 1

C14_RecordKept ==
    \A id \in Ids :
       bookingExists(id) =>
          /\ bookings'[id].tourist = bookings[id].tourist
          /\ bookings'[id].operator = bookings[id].operator
          /\ bookings'[id].amount = bookings[id].amount
          /\ bookings'[id].depositTime = bookings[id].depositTime
          /\ bookings'[id].slaDeadline = bookings[id].slaDeadline
          /\ ~(/\ Len(events'[id]) = Len(events[id]) + 1
               /\ events'[id][Len(events'[id])][1] = "DepositMade")

-----------------------------------------------------------------------------
(* C15 *)

C15_Created ==
    \A id \in {i \in Ids : ~bookingExists(i)} :
       \A caller \in Addr, operator \in OperatorInputs, value \in Values :
          createBooking(caller, id, operator, value) =>
             /\ events[id] = <<>>
             /\ bookings'[id].tourist = caller
             /\ bookings'[id].operator = operator
             /\ bookings'[id].amount = value
             /\ bookings'[id].status = "Pending"
             /\ bookings'[id].slaVerified = FALSE
             /\ bookings'[id].depositTime = now
             /\ bookings'[id].slaDeadline = now + 24 * 60 * 60
             /\ balance' = balance + value
             /\ events'[id] = << <<"DepositMade", caller, operator, value>> >>
             /\ paidOut' = paidOut
             /\ entered' = entered
             /\ \A other \in Ids \ {id} :
                   bookings'[other] = bookings[other] /\ events'[other] = events[other]

\* C15: a createBooking that passes its requires (the id then has no record:
\* C14 has the other case) is one step that stores the
\* booking with tourist = msg.sender, the operator given, amount = msg.value,
\* status Pending, slaVerified = false, depositTime = block.timestamp and
\* slaDeadline = block.timestamp + 24 hours (86400 s), adds exactly msg.value
\* to the contract's balance, and emits DepositMade(id, tourist, operator,
\* amount) once, as the first event of that id; nothing is paid out and no
\* other booking changes.
C15_CreateBooking == [][C15_Created]_vars

\* just after a deposit of 1500: the booking is Pending, the contract holds
\* its amount, and DepositMade is the only event of the id
C15_Witness ==
    \E id \in Ids :
       /\ bookingExists(id)
       /\ bookings[id].status = "Pending"
       /\ bookings[id].amount = 1500
       /\ balance = 1500
       /\ now = bookings[id].depositTime
       /\ Len(events[id]) = 1
       /\ events[id][1][1] = "DepositMade"

-----------------------------------------------------------------------------
(* C16 *)

C16_Verified ==
    \A caller \in Addr, id \in Ids, slaPassed \in BOOLEAN :
       verifySLA(caller, id, slaPassed) =>
          /\ bookings'[id].slaVerified
          /\ slaPassed => /\ bookings'[id].status = "SLAPassed"
                          /\ events'[id] = Append(events[id], <<"SLAPassed", bookings[id].operator>>)
          /\ ~slaPassed => /\ bookings'[id].status = "SLAFailed"
                           /\ events'[id] = Append(events[id], <<"SLAFailed", bookings[id].tourist>>)
          /\ balance' = balance
          /\ paidOut' = paidOut
          /\ bookings'[id].amount = bookings[id].amount
          /\ entered' = entered

\* C16: a verifySLA(id, slaPassed) that passes its requires sets slaVerified
\* and sets the status to SLAPassed when slaPassed is true and to SLAFailed
\* when it is false, emits SLAPassed(id, operator) resp. SLAFailed(id, tourist)
\* as the id's next event, and moves no funds: the contract's balance and what
\* each party has been paid are unchanged.
C16_VerifySLA == [][C16_Verified]_vars

\* a failed verification has just been recorded on a funded booking: the
\* deposit is still held in full and nothing has been paid
C16_Witness ==
    \E id \in Ids :
       /\ bookings[id].status = "SLAFailed"
       /\ bookings[id].slaVerified
       /\ events[id][Len(events[id])] = <<"SLAFailed", bookings[id].tourist>>
       /\ balance = bookings[id].amount
       /\ paidOut[id] = NoPayout

-----------------------------------------------------------------------------
(* C17 *)

C17_OnlyFromSLAPassed ==
    \A caller \in Addr, id \in Ids :
       (~entered /\ bookingExists(id)) =>
          ReleaseToOperatorResult(caller, id) =
             IF bookings[id].status = "SLAPassed" THEN OK ELSE "Invalid booking status"

C17_Release ==
    /\ (~InFlight /\ InFlight' /\ tx'.op = "releaseToOperator") =>
          /\ bookings[tx'.id].status = "SLAPassed"
          /\ tx'.pending = <<[to |-> "operator", amount |-> bookings[tx'.id].amount]>>
    /\ (Commits /\ tx.op = "releaseToOperator") =>
          /\ bookings'[tx.id].status = "Paid"
          /\ paidOut'[tx.id] = [tourist |-> 0, operator |-> bookings[tx.id].amount]
          /\ balance' = tx.saved.balance - bookings[tx.id].amount
          /\ events'[tx.id] =
                Append(tx.saved.events[tx.id],
                       <<"PaidOut", bookings[tx.id].operator, bookings[tx.id].amount>>)
    /\ (Reverts /\ tx.op = "releaseToOperator") =>
          /\ bookings'[tx.id].status = "SLAPassed"
          /\ balance' = tx.saved.balance
          /\ events' = tx.saved.events

-----------------------------------------------------------------------------
(* C18 *)

C18_OnlyFromSLAFailed ==
    \A caller \in Addr, id \in Ids :
       (~entered /\ bookingExists(id)) =>
          RefundToTouristResult(caller, id) =
             IF bookings[id].status = "SLAFailed" THEN OK ELSE "Invalid booking status"

C18_Refund ==
    /\ (~InFlight /\ InFlight' /\ tx'.op = "refundToTourist") =>
          /\ bookings[tx'.id].status = "SLAFailed"
          /\ tx'.pending = <<[to |-> "tourist", amount |-> bookings[tx'.id].amount]>>
    /\ (Commits /\ tx.op = "refundToTourist") =>
          /\ bookings'[tx.id].status = "Refunded"
          /\ paidOut'[tx.id] = [tourist |-> bookings[tx.id].amount, operator |-> 0]
          /\ balance' = tx.saved.balance - bookings[tx.id].amount
          /\ events'[tx.id] =
                Append(tx.saved.events[tx.id],
                       <<"Refunded", bookings[tx.id].tourist, bookings[tx.id].amount>>)
    /\ (Reverts /\ tx.op = "refundToTourist") =>
          /\ bookings'[tx.id].status = "SLAFailed"
          /\ balance' = tx.saved.balance
          /\ events' = tx.saved.events

\* C18: called outside a running payout on an existing booking,
\* refundToTourist passes its requires exactly when the status is SLAFailed,
\* for every caller, and otherwise (Pending and SLAPassed included) fails with
\* "Invalid booking status".  Its one transfer is the full amount to the
\* tourist; when the tourist accepts it the transaction ends with status
\* Refunded, the tourist paid the amount, the operator nothing, the balance
\* lower by the amount, and Refunded(id, tourist, amount) emitted; when the
\* transfer fails everything is as before the call.
C18_RefundToTourist == [] C18_OnlyFromSLAFailed /\ [][C18_Refund]_vars

\* deposit, verification failed, full refund: the booking is Refunded, the
\* tourist has the whole amount and the log ends with the one Refunded event
C18_Witness ==
    \E id \in Ids :
       /\ ~InFlight
       /\ bookings[id].status = "Refunded"
       /\ paidOut[id] = [tourist |-> bookings[id].amount, operator |-> 0]
       /\ balance = 0
       /\ Len(events[id]) = 3
       /\ events[id][2][1] = "SLAFailed"
       /\ events[id][3] = <<"Refunded", bookings[id].tourist, bookings[id].amount>>

-----------------------------------------------------------------------------
(* C19 *)

C19_Split ==
    /\ (~InFlight /\ InFlight' /\ tx'.op = "refundWithPenalty") =>
          /\ bookings[tx'.id].status = "SLAFailed"
          /\ bookings[tx'.id].amount > 0
    /\ (Commits /\ tx.op = "refundWithPenalty") =>
          LET amount  == bookings[tx.id].amount
              penalty == paidOut'[tx.id].operator
              refund  == paidOut'[tx.id].tourist
          IN  /\ penalty * BASIS_POINTS <= amount * PENALTY_PERCENTAGE
              /\ amount * PENALTY_PERCENTAGE < (penalty + 1) * BASIS_POINTS
              /\ penalty + refund = amount
              /\ amount * PENALTY_PERCENTAGE < BASIS_POINTS => refund = amount
              /\ tx.saved.paidOut[tx.id] = NoPayout
              /\ balance' = tx.saved.balance - amount
              /\ bookings'[tx.id].status = "Refunded"
    /\ (Reverts /\ tx.op = "refundWithPenalty") =>
          /\ bookings'[tx.id].status = "SLAFailed"
          /\ paidOut'[tx.id] = NoPayout
          /\ balance' = tx.saved.balance

\* C19: refundWithPenalty runs on an SLAFailed booking, whose amount is
\* positive.  When it completes, the operator has been paid
\* penalty = floor(amount * PENALTY_PERCENTAGE / BASIS_POINTS), i.e. the
\* integer with penalty * BASIS_POINTS <= amount * PENALTY_PERCENTAGE
\* < (penalty + 1) * BASIS_POINTS, and the tourist amount - penalty: the two
\* sum to the amount, which is what leaves the contract, rounding is in the
\* tourist's favour, and when the floor is 0 the tourist has the whole amount.
\* When either transfer fails nobody has been paid and the status is SLAFailed
\* again: the split is all or nothing.
C19_PenaltySplit == [][C19_Split]_vars

\* a refund with penalty of 1500 has completed: 1 to the operator, 1499 to
\* the tourist, nothing left in the contract
C19_Witness ==
    \E id \in Ids :
       /\ ~InFlight
       /\ bookings[id].status = "Refunded"
       /\ bookings[id].amount = 1500
       /\ paidOut[id] = [tourist |-> 1499, operator |-> 1]
       /\ balance = 0
       /\ events[id][Len(events[id])] = <<"PaidOut", bookings[id].operator, 1>>

-----------------------------------------------------------------------------
(* C20 *)

C20_Split ==
    (Commits /\ tx.op = "refundWithPenalty" /\ bookings[tx.id].amount = 100) =>
       /\ paidOut'[tx.id] = [tourist |-> 90, operator |-> 10]
       /\ bookings'[tx.id].status = "Refunded"

\* C20: the penalty is 10 % of the amount: when refundWithPenalty completes
\* on a booking of amount 100 whose verification failed, the operator has
\* been paid 10 and the tourist 90, and the status is Refunded.
C20_TenPercentPenalty == [][C20_Split]_vars

-----------------------------------------------------------------------------
(* C21 *)

C21_Result ==
    \A caller \in Addr, id \in Ids :
       bookingExists(id) =>
          RaiseDisputeResult(caller, id) =
             IF caller \notin {bookings[id].tourist, bookings[id].operator}
             THEN "Only tourist or operator can raise dispute"
             ELSE IF bookings[id].status \in {"SLAPassed", "SLAFailed"}
             THEN OK
             ELSE "Can only dispute after SLA verification"

C21_Step ==
    \A id \in Ids :
       /\ \A caller \in Addr :
             raiseDispute(caller, id) =>
                /\ caller \in {bookings[id].tourist, bookings[id].operator}
                /\ bookings[id].status \in {"SLAPassed", "SLAFailed"}
                /\ bookings'[id] = [bookings[id] EXCEPT !.status = "Disputed"]
                /\ events'[id] =
                      Append(events[id],
                             <<"Disputed", bookings[id].tourist, bookings[id].operator>>)
                /\ balance' = balance
                /\ paidOut' = paidOut
       /\ (/\ ~Reverts
           /\ bookings[id].status # "Disputed"
           /\ bookings'[id].status = "Disputed") =>
             \E caller \in Addr : raiseDispute(caller, id)

\* C21: on an existing booking raiseDispute fails with "Only tourist or
\* operator can raise dispute" for a caller that is neither party, whatever
\* the status; for a party it fails with "Can only dispute after SLA
\* verification" in status Pending, Disputed, Paid and Refunded and passes in
\* SLAPassed and SLAFailed.  A raiseDispute step changes the status to
\* Disputed and nothing else of the booking, emits Disputed(id, tourist,
\* operator), and leaves the balance and every payout as they were; a booking
\* becomes Disputed in no other way (but by undoing a failed resolution).
C21_RaiseDispute == [] C21_Result /\ [][C21_Step]_vars

\* a party has just disputed a verified booking: the deposit is still held,
\* nothing is paid, a second dispute by a party is refused for the status and
\* a third address is refused as not being a party
C21_Witness ==
    \E id \in Ids, stranger \in Addr :
       /\ bookings[id].status = "Disputed"
       /\ events[id][Len(events[id])][1] = "Disputed"
       /\ balance = bookings[id].amount
       /\ paidOut[id] = NoPayout
       /\ RaiseDisputeResult(bookings[id].tourist, id)
             = "Can only dispute after SLA verification"
       /\ RaiseDisputeResult(stranger, id) = "Only tourist or operator can raise dispute"

-----------------------------------------------------------------------------
(* C22 *)

C22_Result ==
    \A id \in Ids :
       bookingExists(id) =>
          /\ \A caller \in arbiters :
                ~entered =>
                   ResolveDisputeResult(caller, id) =
                      IF bookings[id].status = "Disputed" THEN OK ELSE "Invalid booking status"
          /\ (~InFlight /\ bookings[id].status \in {"Paid", "Refunded"}) =>
                \A caller \in Addr :
                   /\ RaiseDisputeResult(caller, id) # OK
                   /\ ResolveDisputeResult(caller, id) # OK

C22_Step ==
    /\ \A caller \in Addr, id \in Ids, operatorWins \in BOOLEAN :
          resolveDispute(caller, id, operatorWins) =>
             /\ caller \in arbiters
             /\ bookings[id].status = "Disputed"
             /\ bookings'[id].status = IF operatorWins THEN "Paid" ELSE "Refunded"
             /\ tx'.pending = <<[to |-> IF operatorWins THEN "operator" ELSE "tourist",
                                 amount |-> bookings[id].amount]>>
    /\ (Commits /\ tx.op = "resolveDispute") =>
          LET id == tx.id
              amount == bookings[id].amount
              operatorWins == bookings[id].status = "Paid"
          IN  /\ bookings'[id] = bookings[id]
              /\ bookings[id].status \in {"Paid", "Refunded"}
              /\ paidOut'[id] = IF operatorWins
                                THEN [tourist |-> 0, operator |-> amount]
                                ELSE [tourist |-> amount, operator |-> 0]
              /\ balance' = tx.saved.balance - amount
              /\ events'[id] =
                    tx.saved.events[id]
                       \o << IF operatorWins
                             THEN <<"PaidOut", bookings[id].operator, amount>>
                             ELSE <<"Refunded", bookings[id].tourist, amount>>,
                             <<"DisputeResolved", operatorWins, amount>> >>

\* C22: on an existing booking, outside a running payout, resolveDispute by
\* an arbiter passes its requires exactly when the status is Disputed and
\* otherwise fails with "Invalid booking status".  It sets the status to Paid
\* and sends the full amount to the operator when operatorWins is true, and
\* sets Refunded and sends the full amount to the tourist when it is false;
\* nothing in it reads the verification outcome.  When the transfer is
\* accepted the winner has been paid the amount, the other party nothing, and
\* the payout event and DisputeResolved are emitted.  Afterwards raiseDispute
\* and resolveDispute fail on the booking for every caller.
C22_ResolveDispute == [] C22_Result /\ [][C22_Step]_vars

\* a booking whose verification failed was disputed and resolved for the
\* operator: it is Paid, the operator has the whole amount, and the arbiter
\* cannot resolve it a second time
C22_Witness ==
    \E id \in Ids, caller \in arbiters :
       /\ ~InFlight
       /\ bookings[id].status = "Paid"
       /\ events[id][2][1] = "SLAFailed"
       /\ events[id][3][1] = "Disputed"
       /\ events[id][Len(events[id])] = <<"DisputeResolved", TRUE, bookings[id].amount>>
       /\ paidOut[id] = [tourist |-> 0, operator |-> bookings[id].amount]
       /\ ResolveDisputeResult(caller, id) = "Invalid booking status"

-----------------------------------------------------------------------------
(* C23 *)

C23_Result ==
    \A caller \in Addr, a \in Addr \cup {NullAddr} :
       IF caller # Owner
       THEN /\ AuthorizeOracleResult(caller, a) = "Ownable: caller is not the owner"
            /\ AuthorizeArbiterResult(caller, a) = "Ownable: caller is not the owner"
            /\ RevokeResult(caller, a) = "Ownable: caller is not the owner"
       ELSE /\ RevokeResult(caller, a) = OK
            /\ a # NullAddr => /\ AuthorizeOracleResult(caller, a) = OK
                               /\ AuthorizeArbiterResult(caller, a) = OK

C23_Step ==
    /\ \A caller \in Addr, a \in Addr \cup {NullAddr} :
          /\ authorizeOracle(caller, a) =>
                /\ caller = Owner
                /\ authorizedOracles' = authorizedOracles \cup {a}
                /\ arbiters' = arbiters
                /\ roleEvent' = <<"OracleAuthorized", a>>
          /\ revokeOracle(caller, a) =>
                /\ caller = Owner
                /\ authorizedOracles' = authorizedOracles \ {a}
                /\ arbiters' = arbiters
                /\ roleEvent' = <<"OracleRevoked", a>>
          /\ authorizeArbiter(caller, a) =>
                /\ caller = Owner
                /\ arbiters' = arbiters \cup {a}
                /\ authorizedOracles' = authorizedOracles
                /\ roleEvent' = <<"ArbiterAuthorized", a>>
          /\ revokeArbiter(caller, a) =>
                /\ caller = Owner
                /\ arbiters' = arbiters \ {a}
                /\ authorizedOracles' = authorizedOracles
                /\ roleEvent' = <<"ArbiterRevoked", a>>
    /\ (/\ ~Reverts
        /\ \/ authorizedOracles' # authorizedOracles
           \/ arbiters' # arbiters
           \/ roleEvent' # roleEvent) =>
          \E a \in Addr \cup {NullAddr} :
             \/ authorizeOracle(Owner, a)
             \/ revokeOracle(Owner, a)
             \/ authorizeArbiter(Owner, a)
             \/ revokeArbiter(Owner, a)

\* C23: authorizeOracle, revokeOracle, authorizeArbiter and revokeArbiter fail
\* with "Ownable: caller is not the owner" for every caller but the owner, and
\* a failing call is no step: the two role sets and the role event change
\* only in a step that is one of the four called by the owner.  Called by the
\* owner, revoke passes for every address and authorize for every address but
\* address(0); the step adds, resp. removes, exactly the address given in
\* exactly the set named, leaves the other set alone, and emits
\* OracleAuthorized / OracleRevoked / ArbiterAuthorized / ArbiterRevoked with
\* that address.
C23_OwnerManagesRoles == [] C23_Result /\ [][C23_Step]_vars

\* the owner has made address 2 an oracle and has granted and then revoked
\* the arbiter role of address 3, which is now refused both operations
C23_Witness ==
    /\ authorizedOracles = {2}
    /\ arbiters = {Owner}
    /\ roleEvent = <<"ArbiterRevoked", 3>>
    /\ RevokeResult(3, 2) = "Ownable: caller is not the owner"
    /\ AuthorizeArbiterResult(3, 3) = "Ownable: caller is not the owner"

-----------------------------------------------------------------------------
(* C24 *)

\* C24: the owner is an arbiter in every reachable state, whatever authorize
\* and revoke calls were made, and so passes the requires of resolveDispute
\* on every Disputed booking.
C24_OwnerIsArbiter ==
    /\ Owner \in arbiters
    /\ \A id \in Ids :
          (~entered /\ bookingExists(id) /\ bookings[id].status = "Disputed")
             => ResolveDisputeResult(Owner, id) = OK

-----------------------------------------------------------------------------
(* C25 *)

\* the log as it stands outside the transaction in flight
CommittedEvents == IF InFlight THEN tx.saved.events ELSE events

IsPrefix(s, t) == Len(s) <= Len(t) /\ SubSeq(t, 1, Len(s)) = s

\* the events of id that the step adds to the log
Added(id) == SubSeq(CommittedEvents'[id], Len(CommittedEvents[id]) + 1,
                    Len(CommittedEvents'[id]))

C25_AppendOnly ==
    \A id \in Ids :
       /\ IsPrefix(CommittedEvents[id], CommittedEvents'[id])
       /\ CommittedBookings'[id] = CommittedBookings[id] => Added(id) = <<>>

\* C25 as stated: every completed transition of a booking adds exactly one
\* event to the log, except refundWithPenalty, which adds two; nothing else
\* adds an event, and the log only grows at its end.
C25_OneEventPerTransition ==
    [][/\ C25_AppendOnly
       /\ \A id \in Ids :
             CommittedBookings'[id] # CommittedBookings[id] =>
                Len(Added(id)) = IF Commits /\ tx.op = "refundWithPenalty" THEN 2 ELSE 1]_vars

C25_Step ==
    /\ C25_AppendOnly
    /\ \A id \in Ids :
          CommittedBookings'[id] # CommittedBookings[id] =>
             LET booking == CommittedBookings'[id]
             IN  IF Commits /\ tx.op = "refundWithPenalty"
                 THEN /\ Len(Added(id)) = 2
                      /\ Added(id)[1] = <<"Refunded", booking.tourist,
                                          RefundAmount(booking.amount)>>
                      /\ Added(id)[2] = <<"PaidOut", booking.operator,
                                          PenaltyAmount(booking.amount)>>
                 ELSE IF Commits /\ tx.op = "resolveDispute"
                 THEN /\ Len(Added(id)) = 2
                      /\ Added(id)[1][1] = IF booking.status = "Paid" THEN "PaidOut"
                                                                    ELSE "Refunded"
                      /\ Added(id)[2] = <<"DisputeResolved", booking.status = "Paid",
                                          booking.amount>>
                 ELSE Len(Added(id)) = 1

\* C25, amended: every completed transition of a booking adds exactly one
\* event to the log, except refundWithPenalty, which adds Refunded (the
\* tourist's part) and PaidOut (the operator's part), and resolveDispute,
\* which adds the payout event (PaidOut or Refunded) and then
\* DisputeResolved.  A step that leaves the booking as it was, a reverted
\* payout included, adds nothing, and the log only grows at its end.
C25_EventLog == [][C25_Step]_vars

\* a dispute resolved for the tourist: the log holds DepositMade, the
\* verification, Disputed, and the two events of the resolution
C25_Witness ==
    \E id \in Ids :
       /\ ~InFlight
       /\ bookings[id].status = "Refunded"
       /\ Len(events[id]) = 5
       /\ events[id][3][1] = "Disputed"
       /\ events[id][4] = <<"Refunded", bookings[id].tourist, bookings[id].amount>>
       /\ events[id][5] = <<"DisputeResolved", FALSE, bookings[id].amount>>

-----------------------------------------------------------------------------
(* C26 *)

\* C26: for an id under which no booking was created, getBooking, isTimedOut
\* and getTimeRemaining each revert with "Booking does not exist"; none of
\* them returns a value.
C26_UnknownIdNotFound ==
    \A id \in Ids :
       ~bookingExists(id) =>
          /\ getBooking(id)[1] = "revert"
          /\ getBooking(id)[2] = "Booking does not exist"
          /\ isTimedOut(id)[1] = "revert"
          /\ getTimeRemaining(id)[1] = "revert"

-----------------------------------------------------------------------------
(* C27 *)

C27_Value ==
    \A id \in Ids :
       bookingExists(id) =>
          LET remaining == getTimeRemaining(id)
              deadline == bookings[id].slaDeadline
          IN  /\ remaining[1] = "return"
              /\ now < deadline => remaining[2] = deadline - now
              /\ now >= deadline => remaining[2] = 0
              /\ remaining[2] >= 0
              /\ remaining[2] <= 24 * 60 * 60

C27_NonIncreasing ==
    \A id \in Ids :
       bookingExists(id) => getTimeRemaining(id)'[2] <= getTimeRemaining(id)[2]

\* C27: for an existing booking getTimeRemaining returns slaDeadline -
\* block.timestamp while block.timestamp < slaDeadline and 0 from the deadline
\* on; the value is never negative, never more than 24 hours (86400 s), and no
\* step, the passing of time included, makes it larger.
C27_TimeRemaining == [] C27_Value /\ [][C27_NonIncreasing]_vars

\* the clock is past the deadline of a booking that is still Pending, and
\* getTimeRemaining answers 0
C27_Witness ==
    \E id \in Ids :
       /\ bookingExists(id)
       /\ bookings[id].status = "Pending"
       /\ now = bookings[id].slaDeadline + 1
       /\ getTimeRemaining(id) = <<"return", 0>>

-----------------------------------------------------------------------------
(* C28 *)

\* the status each payout requires, which it has found before it ran
StatusRequired(op) ==
    CASE op = "releaseToOperator" -> "SLAPassed"
      [] op = "refundToTourist" -> "SLAFailed"
      [] op = "refundWithPenalty" -> "SLAFailed"
      [] op = "handleTimeout" -> "Pending"
      [] op = "resolveDispute" -> "Disputed"

C28_Message ==
    InFlight =>
       /\ tx.op \in {"releaseToOperator", "refundToTourist", "refundWithPenalty",
                     "handleTimeout", "resolveDispute"}
       /\ TransferFailure \in
             {"Transfer to operator failed", "Transfer to tourist failed",
              "Penalty transfer to operator failed", "Refund transfer to tourist failed",
              "Timeout refund failed", "Dispute resolution payment failed",
              "Dispute resolution refund failed"}

C28_Step ==
    (InFlight /\ ~InFlight') =>
       LET id == tx.id IN
       \/ /\ bookings' = bookings
          /\ paidOut'[id].tourist + paidOut'[id].operator = bookings[id].amount
          /\ balance' = balance
       \/ /\ bookings'[id] = [bookings[id] EXCEPT !.status = StatusRequired(tx.op)]
          /\ paidOut'[id] = NoPayout
          /\ balance' = balance + TotalPaidOut(id)
          /\ events'[id][Len(events'[id])][1]
                \in {"DepositMade", "SLAPassed", "SLAFailed", "Disputed"}
          /\ ~entered'
          /\ TransferRejected

\* C28: a payout in progress ends in one of two ways.  Either its last
\* transfer is accepted, and the whole amount has been paid; or a transfer
\* is rejected, the transaction reverts with the message of that transfer's
\* require, and then the booking has the status the payout found, nobody has
\* been paid anything for it, all that was sent is back in the contract's
\* balance, no payout event is in the log and the reentrancy lock is open.
\* This holds in refundWithPenalty also when the operator had accepted the
\* penalty and the tourist then rejects the refund.
C28_AllOrNothing == [] C28_Message /\ [][C28_Step]_vars

\* refundWithPenalty of 1500 in progress: the operator has accepted the
\* penalty of 1 and the refund of 1499 is being sent to the tourist, who may
\* reject it
C28_Witness ==
    /\ InFlight
    /\ tx.op = "refundWithPenalty"
    /\ paidOut[tx.id].operator = 1
    /\ Head(tx.pending) = [to |-> "tourist", amount |-> 1499]
    /\ TransferFailure = "Refund transfer to tourist failed"
    /\ ENABLED TransferRejected

-----------------------------------------------------------------------------
(* C29 *)

\* bookings, role sets, balance, payouts and both logs
Ledger == <<bookings, authorizedOracles, arbiters, balance, paidOut, events, roleEvent>>

\* the step is a call on a booking that passed every require of its function
PassingBookingCall ==
    \E caller \in Addr, id \in Ids :
       \/ \E slaPassed \in BOOLEAN :
             VerifySLAResult(caller, id) = OK /\ verifySLA(caller, id, slaPassed)
       \/ ReleaseToOperatorResult(caller, id) = OK /\ releaseToOperator(caller, id)
       \/ RefundToTouristResult(caller, id) = OK /\ refundToTourist(caller, id)
       \/ RefundWithPenaltyResult(caller, id) = OK /\ refundWithPenalty(caller, id)
       \/ HandleTimeoutResult(caller, id) = OK /\ handleTimeout(caller, id)
       \/ RaiseDisputeResult(caller, id) = OK /\ raiseDispute(caller, id)
       \/ \E operatorWins \in BOOLEAN :
             ResolveDisputeResult(caller, id) = OK /\ resolveDispute(caller, id, operatorWins)
       \/ \E operator \in OperatorInputs, value \in Values :
             /\ CreateBookingResult(caller, id, operator, value) = OK
             /\ createBooking(caller, id, operator, value)

\* the step is a role operation that passed every require of its function
PassingRoleCall ==
    \E caller \in Addr, a \in Addr \cup {NullAddr} :
       \/ AuthorizeOracleResult(caller, a) = OK /\ authorizeOracle(caller, a)
       \/ RevokeResult(caller, a) = OK /\ revokeOracle(caller, a)
       \/ AuthorizeArbiterResult(caller, a) = OK /\ authorizeArbiter(caller, a)
       \/ RevokeResult(caller, a) = OK /\ revokeArbiter(caller, a)

C29_Step ==
    Ledger' # Ledger =>
       \/ TransferAccepted
       \/ TransferRejected
       \/ IF <<authorizedOracles, arbiters, roleEvent>>' # <<authorizedOracles, arbiters, roleEvent>>
          THEN PassingRoleCall
          ELSE PassingBookingCall

\* C29: a call that fails a require of its function (unknown or duplicate
\* id, invalid amount or party, missing role, wrong status, deadline passed
\* or not reached) changes nothing: bookings, role sets, balance, payouts and
\* the logs change only in a step that is a call passing every require of
\* its function, or the acceptance or rejection of a transfer in progress.
C29_FailedCallNoEffect == [][C29_Step]_vars

\* a Pending booking past its deadline, with an oracle at hand: calls fail
\* for the deadline, the status, the duplicate id and the missing role
C29_Witness ==
    \E id \in Ids, oracle \in authorizedOracles, stranger \in Addr :
       /\ ~InFlight
       /\ VerifySLAResult(oracle, id) = "SLA deadline passed"
       /\ ReleaseToOperatorResult(stranger, id) = "Invalid booking status"
       /\ CreateBookingResult(stranger, id, oracle, 100) = "Booking ID already exists"
       /\ RaiseDisputeResult(stranger, id) = "Only tourist or operator can raise dispute"
       /\ ResolveDisputeResult(stranger, id) = "Not authorized arbiter"
       /\ RevokeResult(stranger, oracle) = "Ownable: caller is not the owner"

-----------------------------------------------------------------------------
(* C30 *)

\* what the contract still holds of a booking's deposit
Held(id) == IF bookingExists(id) THEN bookings[id].amount - TotalPaidOut(id) ELSE 0

\* the bookings the step touches: record, payouts or events
Touched ==
    {id \in TwoIds : \/ bookings'[id] # bookings[id]
                     \/ paidOut'[id] # paidOut[id]
                     \/ events'[id] # events[id]}

C30_Custody == balance = Held("b1") + Held("b2")

C30_Frame ==
    /\ ~TransferRejected => Cardinality(Touched) <= 1
    /\ TransferRejected =>
          \A id \in TwoIds \ {tx.id} :
             /\ bookings'[id] = tx.saved.bookings[id]
             /\ paidOut'[id] = paidOut[id]
    /\ \A a \in Touched, b \in TwoIds \ Touched :
          /\ Held(b)' = Held(b)
          /\ balance' - balance = Held(a)' - Held(a)
          /\ entered' = entered =>
                \A caller \in Addr :
                   /\ AllResults(caller, b)' = AllResults(caller, b)
                   /\ \A value \in Values :
                         CreateBookingResult(caller, b, 3, value)'
                            = CreateBookingResult(caller, b, 3, value)

\* C30: bookings are independent.  The contract's balance is at every moment
\* the sum of what it holds of each booking.  A step of any operation touches
\* the record, the payouts and the events of one booking only; the other
\* booking's record and held value stay as they are, the balance changes by
\* what the touched booking's held value changes, and every operation on the
\* other booking gives the result it gave before the step.  The one step that
\* can restore two records is the revert of a payout whose recipient had
\* called the other booking from its callback: both are then as they were
\* before the payout, and no payout of the other booking is undone.
C30_Independent == [] C30_Custody /\ [][C30_Frame]_vars

\* b1 has been refunded with the penalty while b2, created at the same time,
\* is still Pending with its whole deposit held
C30_Witness ==
    /\ ~InFlight
    /\ bookings["b1"].status = "Refunded"
    /\ paidOut["b1"] = [tourist |-> 1499, operator |-> 1]
    /\ bookings["b2"].status = "Pending"
    /\ bookings["b2"].amount = 100
    /\ bookings["b2"].depositTime = bookings["b1"].depositTime
    /\ balance = 100
    /\ Len(events["b2"]) = 1

-----------------------------------------------------------------------------
(* C31 *)

\* the record of an existing booking still carries what its DepositMade
\* event announced at creation
C31_CreationValues ==
    \A id \in Ids :
       bookingExists(id) =>
          LET booking == bookings[id] IN
          /\ Len(events[id]) >= 1
          /\ events[id][1] = <<"DepositMade", booking.tourist, booking.operator, booking.amount>>
          /\ booking.tourist # booking.operator
          /\ booking.amount > 0
          /\ booking.amount \in Values
          /\ booking.depositTime <= now
          /\ booking.slaDeadline = booking.depositTime + SLA_TIMEOUT_HOURS * HOUR
          /\ getBooking(id) = <<"return", booking>>

C31_Permanent ==
    \A id \in Ids :
       bookingExists(id) =>
          /\ bookingExists(id)'
          /\ getBooking(id)'[1] = "return"
          /\ <<getBooking(id)[2].tourist, getBooking(id)[2].operator, getBooking(id)[2].amount,
               getBooking(id)[2].depositTime, getBooking(id)[2].slaDeadline>>
              = <<bookings'[id].tourist, bookings'[id].operator, bookings'[id].amount,
                  bookings'[id].depositTime, bookings'[id].slaDeadline>>
          /\ events'[id][1] = events[id][1]

\* C31: a booking record is permanent and its creation-time fields are
\* immutable.  An existing record holds the tourist, operator and amount its
\* DepositMade event announced, tourist # operator, amount > 0, and a deadline
\* SLA_TIMEOUT_HOURS after its deposit time; no step, a payout, its revert,
\* a verification, a dispute or its resolution included, removes the record
\* or changes one of tourist, operator, amount, depositTime and slaDeadline,
\* and getBooking returns the record in every status, Refunded and Paid
\* included.
C31_RecordPermanent == [] C31_CreationValues /\ [][C31_Permanent]_vars

\* a booking settled after its deadline: getBooking still returns the record
\* with the values of its creation
C31_Witness ==
    \E id \in Ids :
       /\ ~InFlight
       /\ bookingExists(id)
       /\ Terminal(bookings[id].status)
       /\ now > bookings[id].slaDeadline
       /\ getBooking(id)[1] = "return"
       /\ getBooking(id)[2].amount = 1500
       /\ TotalPaidOut(id) = 1500
       /\ events[id][1] = <<"DepositMade", getBooking(id)[2].tourist, getBooking(id)[2].operator, 1500>>

-----------------------------------------------------------------------------
(* C32 *)

\* a step of one of the four role operations
C32_RoleStep ==
    /\ InFlight' = InFlight
    /\ \/ authorizedOracles' # authorizedOracles
       \/ arbiters' # arbiters
       \/ roleEvent' # roleEvent

C32_Frame ==
    C32_RoleStep =>
       /\ bookings' = bookings
       /\ paidOut' = paidOut
       /\ balance' = balance
       /\ events' = events
       /\ \A caller \in Addr, id \in Ids :
             /\ PayoutResults(caller, id)' = PayoutResults(caller, id)
             /\ RaiseDisputeResult(caller, id)' = RaiseDisputeResult(caller, id)

C32_StillSettles ==
    \A id \in Ids :
       (bookingExists(id) /\ ~entered) =>
          LET booking == bookings[id] IN
          /\ booking.status = "SLAPassed" =>
                /\ \A caller \in Addr : ReleaseToOperatorResult(caller, id) = OK
                /\ RaiseDisputeResult(booking.tourist, id) = OK
                /\ RaiseDisputeResult(booking.operator, id) = OK
          /\ booking.status = "SLAFailed" =>
                /\ \A caller \in Addr :
                      /\ RefundToTouristResult(caller, id) = OK
                      /\ RefundWithPenaltyResult(caller, id) = OK
                /\ RaiseDisputeResult(booking.tourist, id) = OK
                /\ RaiseDisputeResult(booking.operator, id) = OK
          /\ (Len(events[id]) > 0 /\ events[id][Len(events[id])][1] = "DisputeResolved") =>
                /\ Terminal(booking.status)
                /\ booking.status = IF events[id][Len(events[id])][2] THEN "Paid" ELSE "Refunded"
                /\ TotalPaidOut(id) = booking.amount

\* C32: role changes are not retroactive.  A step of authorizeOracle,
\* revokeOracle, authorizeArbiter or revokeArbiter changes no booking record,
\* no payout, no event and not the balance, and every payout and raiseDispute
\* gives each caller the result it gave before the step.  So a verified
\* booking (SLAPassed or SLAFailed) can be released or refunded by any caller
\* and disputed by its tourist and its operator whatever the set of oracles
\* is by then, and a booking whose dispute was resolved keeps its terminal
\* status and its payout whatever the set of arbiters is by then.
C32_RolesNotRetroactive == [] C32_StillSettles /\ [][C32_Frame]_vars

\* a verified booking was disputed and resolved for the operator; since then
\* the oracle and the arbiter have both been revoked, the last of them just
\* now, and the booking is Paid with the whole amount at the operator
C32_Witness ==
    \E id \in Ids :
       /\ ~InFlight
       /\ authorizedOracles = {}
       /\ arbiters = {}
       /\ roleEvent[1] \in {"OracleRevoked", "ArbiterRevoked"}
       /\ bookings[id].slaVerified
       /\ bookings[id].status = "Paid"
       /\ events[id][Len(events[id])] = <<"DisputeResolved", TRUE, bookings[id].amount>>
       /\ paidOut[id].operator = bookings[id].amount

-----------------------------------------------------------------------------
(* C33 *)

\* C33: releaseToOperator on an existing booking that is still Pending, its
\* SLA never verified, fails with "SLA not verified".
C33_ReleaseUnverified ==
    \A caller \in Addr, id \in Ids :
       (/\ ~entered
        /\ bookingExists(id)
        /\ bookings[id].status = "Pending"
        /\ ~bookings[id].slaVerified)
       => ReleaseToOperatorResult(caller, id) = "SLA not verified"

-----------------------------------------------------------------------------
(* C34 *)

\* what verifySLA and resolveDispute answer once the caller's role is
\* established
C34_AfterRoleCheck ==
    {"ReentrancyGuard: reentrant call", "Booking does not exist", "Invalid booking status",
     "SLA already verified", "SLA deadline passed", OK}

\* C34: authorization is checked before anything else in verifySLA and
\* resolveDispute.  Every answer other than the role error (booking not
\* found, invalid status, already verified, deadline passed, reentrant call,
\* success) is given to authorized callers only.  On an id that does not
\* exist, on a booking in the wrong status and while a payout is in its
\* external call, the caller outside the role gets "Not authorized oracle" /
\* "Not authorized arbiter", where the caller in the role gets
\* "Booking does not exist", "Invalid booking status" and (resolveDispute)
\* "ReentrancyGuard: reentrant call".
C34_AuthorizationFirst ==
    \A caller \in Addr, id \in Ids :
       LET verify == VerifySLAResult(caller, id)
           resolve == ResolveDisputeResult(caller, id)
           isOracle == caller \in authorizedOracles
           isArbiter == caller \in arbiters
       IN  /\ verify \in C34_AfterRoleCheck => isOracle
           /\ resolve \in C34_AfterRoleCheck => isArbiter
           /\ ~bookingExists(id) =>
                 /\ verify = IF isOracle THEN "Booking does not exist"
                                         ELSE "Not authorized oracle"
                 /\ ~entered =>
                       resolve = IF isArbiter THEN "Booking does not exist"
                                              ELSE "Not authorized arbiter"
           /\ (bookingExists(id) /\ bookings[id].status # "Pending") =>
                 verify = IF isOracle THEN "Invalid booking status"
                                      ELSE "Not authorized oracle"
           /\ (bookingExists(id) /\ bookings[id].status # "Disputed" /\ ~entered) =>
                 resolve = IF isArbiter THEN "Invalid booking status"
                                        ELSE "Not authorized arbiter"
           /\ entered =>
                 resolve = IF isArbiter THEN "ReentrancyGuard: reentrant call"
                                        ELSE "Not authorized arbiter"

\* a Paid booking, in the wrong status for both operations: the oracle and
\* the arbiter are told so, a third address is told it has no role
C34_Witness ==
    \E id \in Ids, caller \in Addr, oracle \in authorizedOracles, arbiter \in arbiters :
       /\ ~InFlight
       /\ bookings[id].status = "Paid"
       /\ caller \notin authorizedOracles \cup arbiters
       /\ VerifySLAResult(caller, id) = "Not authorized oracle"
       /\ ResolveDisputeResult(caller, id) = "Not authorized arbiter"
       /\ VerifySLAResult(oracle, id) = "Invalid booking status"
       /\ ResolveDisputeResult(arbiter, id) = "Invalid booking status"

-----------------------------------------------------------------------------
(* C35 *)

\* the log of the booking ends with the two events of a completed
\* refundWithPenalty
C35_Penalised(id) ==
    /\ bookingExists(id)
    /\ Len(events[id]) >= 2
    /\ SubSeq(events[id], Len(events[id]) - 1, Len(events[id]))
          = PenaltyEvents(id, RefundAmount(bookings[id].amount),
                              PenaltyAmount(bookings[id].amount))

C35_EventCount(id, kind) ==
    Cardinality({i \in 1..Len(events[id]) : events[id][i][1] = kind})

\* C35: the penalty split is idempotent by the status guard alone.  From the
\* moment refundWithPenalty has written Refunded, during its own transfers
\* already, the status guards of refundWithPenalty and refundToTourist
\* (SLAFailed required) reject the booking.  After a completed
\* refundWithPenalty both calls fail with "Invalid booking status" for every
\* caller, the operator holds exactly the penalty and the tourist exactly the
\* remainder, and the booking's log holds one Refunded and one PaidOut event
\* and never more.
C35_PenaltyIdempotent ==
    \A id \in Ids :
       /\ (InFlight /\ tx.op = "refundWithPenalty" /\ tx.id = id) =>
             /\ ~validBookingStatus(id, "SLAFailed")
             /\ paidOut[id].operator <= PenaltyAmount(bookings[id].amount)
             /\ paidOut[id].tourist <= RefundAmount(bookings[id].amount)
       /\ C35_Penalised(id) =>
             /\ ~entered
             /\ \A caller \in Addr :
                   /\ RefundWithPenaltyResult(caller, id) = "Invalid booking status"
                   /\ RefundToTouristResult(caller, id) = "Invalid booking status"
             /\ paidOut[id] = [tourist |-> RefundAmount(bookings[id].amount),
                               operator |-> PenaltyAmount(bookings[id].amount)]
       /\ C35_EventCount(id, "Refunded") <= 1
       /\ C35_EventCount(id, "PaidOut") <= 1

\* a refund with penalty of 1500 has completed, time has passed, and the
\* tourist asking for the full refund is turned away by the status guard
C35_Witness ==
    \E id \in Ids :
       /\ C35_Penalised(id)
       /\ bookings[id].amount = 1500
       /\ now > bookings[id].depositTime
       /\ paidOut[id].operator = 1
       /\ RefundToTouristResult(bookings[id].tourist, id) = "Invalid booking status"
       /\ RefundWithPenaltyResult(bookings[id].operator, id) = "Invalid booking status"

-----------------------------------------------------------------------------
(* C36 *)

\* the deposit of a booking that is not settled yet
C36_Escrowed(id) ==
    IF bookingExists(id) /\ ~Terminal(bookings[id].status) THEN bookings[id].amount ELSE 0

RECURSIVE C36_Sum(_)
C36_Sum(transfers) ==
    IF transfers = <<>> THEN 0 ELSE Head(transfers).amount + C36_Sum(Tail(transfers))

\* what the payout in flight has still to send after the transfer in progress
C36_StillToSend == IF InFlight THEN C36_Sum(Tail(tx.pending)) ELSE 0

\* C36: escrow solvency.  The contract's balance is the sum of the amounts of
\* the bookings that are Pending, SLAPassed, SLAFailed or Disputed, plus,
\* while a payout is in its external calls, what that payout has still to
\* send.  So every booking that is not settled has its whole amount in the
\* contract, next to the whole amount of the other, and when a booking is
\* settled it has been paid its own amount exactly and the others' deposits
\* are all still there.
C36_Solvency ==
    /\ balance = C36_Escrowed("b1") + C36_Escrowed("b2") + C36_StillToSend
    /\ \A id \in TwoIds :
          /\ balance >= C36_Escrowed(id)
          /\ (bookingExists(id) /\ Terminal(bookings[id].status)) =>
                TotalPaidOut(id) + (IF InFlight /\ tx.id = id THEN C36_StillToSend ELSE 0)
                   = bookings[id].amount

\* b1 of 100 was refunded by timeout while b2 of 1500, created later, is
\* verified and waits for its release with its whole deposit in the contract
C36_Witness ==
    /\ ~InFlight
    /\ bookings["b1"].status = "Refunded"
    /\ bookings["b1"].amount = 100
    /\ ~bookings["b1"].slaVerified
    /\ paidOut["b1"].tourist = 100
    /\ bookings["b2"].status = "SLAPassed"
    /\ bookings["b2"].amount = 1500
    /\ balance = 1500
    /\ \A caller \in Addr : ReleaseToOperatorResult(caller, "b2") = OK

-----------------------------------------------------------------------------
(* C37 *)

\* the booking went from Pending to Refunded by handleTimeout: no
\* verification is in its log, and the refund of the whole amount is the
\* only thing that follows the deposit, in the log or still in flight
C37_RefundedByTimeout(id) ==
    /\ \A i \in 1..Len(events[id]) : events[id][i][1] \notin {"SLAPassed", "SLAFailed"}
    /\ IF InFlight
       THEN /\ tx.op = "handleTimeout"
            /\ tx.id = id
            /\ Len(events[id]) = 1
            /\ tx.emits = <<RefundedEvent(id, bookings[id].amount)>>
       ELSE /\ Len(events[id]) = 2
            /\ events[id][2] = RefundedEvent(id, bookings[id].amount)
    /\ now > bookings[id].slaDeadline

\* C37: status and verified flag stay consistent.  A Pending booking has
\* slaVerified = FALSE; an SLAPassed, SLAFailed, Disputed or Paid booking has
\* slaVerified = TRUE; a Refunded booking has slaVerified = FALSE only if it
\* was refunded by handleTimeout, and TRUE only if it was not.  So, for every
\* caller, releaseToOperator, refundToTourist and refundWithPenalty never
\* answer "SLA not verified", and verifySLA and handleTimeout never answer
\* "SLA already verified": once the status guard has passed, the check of
\* the flag passes too.
C37_FlagConsistent ==
    \A id \in Ids :
       bookingExists(id) =>
          LET booking == bookings[id] IN
          /\ booking.status = "Pending" => ~booking.slaVerified
          /\ booking.status \in {"SLAPassed", "SLAFailed", "Disputed", "Paid"} =>
                booking.slaVerified
          /\ booking.status = "Refunded" =>
                (~booking.slaVerified <=> C37_RefundedByTimeout(id))
          /\ \A caller \in Addr :
                /\ "SLA not verified" \notin
                      {ReleaseToOperatorResult(caller, id), RefundToTouristResult(caller, id),
                       RefundWithPenaltyResult(caller, id)}
                /\ "SLA already verified" \notin
                      {VerifySLAResult(caller, id), HandleTimeoutResult(caller, id)}

\* a booking refunded by timeout, never verified, next to the oracle that
\* could have verified it
C37_Witness ==
    \E id \in Ids :
       /\ ~InFlight
       /\ authorizedOracles # {}
       /\ bookings[id].status = "Refunded"
       /\ ~bookings[id].slaVerified
       /\ C37_RefundedByTimeout(id)
       /\ paidOut[id].tourist = bookings[id].amount

-----------------------------------------------------------------------------
(* C38 *)

\* the calls that compete for a verified booking: what each answers a caller
C38_Settlements(caller, id) ==
    <<ReleaseToOperatorResult(caller, id), RefundToTouristResult(caller, id),
      RefundWithPenaltyResult(caller, id), RaiseDisputeResult(caller, id)>>

C38_Open ==
    \A id \in Ids, caller \in Addr :
       (bookingExists(id) /\ ~entered) =>
          LET party == caller \in {bookings[id].tourist, bookings[id].operator}
              dispute == IF party THEN OK ELSE "Only tourist or operator can raise dispute"
          IN  /\ bookings[id].status = "SLAFailed" =>
                    C38_Settlements(caller, id) = <<"Invalid booking status", OK, OK, dispute>>
              /\ bookings[id].status = "SLAPassed" =>
                    C38_Settlements(caller, id) = <<OK, "Invalid booking status",
                                                    "Invalid booking status", dispute>>

C38_Closed ==
    \A id \in Ids, caller \in Addr :
       (bookingExists(id) /\ bookings[id].status \in {"Disputed", "Paid", "Refunded"}) =>
          LET party == caller \in {bookings[id].tourist, bookings[id].operator}
              payout == IF entered THEN "ReentrancyGuard: reentrant call"
                                   ELSE "Invalid booking status"
          IN  C38_Settlements(caller, id) =
                 <<payout, payout, payout,
                   IF party THEN "Can only dispute after SLA verification"
                            ELSE "Only tourist or operator can raise dispute">>

C38_FirstWins ==
    \A id \in Ids :
       (/\ bookings[id].status \in {"SLAPassed", "SLAFailed"}
        /\ bookings'[id].status # bookings[id].status) =>
          /\ bookings'[id].status \in
                IF bookings[id].status = "SLAPassed" THEN {"Paid", "Disputed"}
                                                     ELSE {"Refunded", "Disputed"}
          /\ \A caller \in Addr :
                \A i \in 1..4 : C38_Settlements(caller, id)'[i] # OK

\* C38: competing settlements exclude each other.  On an SLAFailed booking
\* refundToTourist and refundWithPenalty pass for every caller, the operator
\* included, and raiseDispute for the tourist and the operator; on an
\* SLAPassed booking releaseToOperator passes for every caller and
\* raiseDispute for the two parties.  The first of them to execute takes the
\* booking out of that status, and from that step on, during the payout's
\* own transfers already, every one of the four fails for every caller: in
\* Disputed, Paid and Refunded the payouts answer "Invalid booking status"
\* (inside a payout's transfer, the reentrancy error) and a party's
\* raiseDispute answers "Can only dispute after SLA verification".  Only a
\* payout whose transfer failed, which has not succeeded, reopens the choice.
C38_SettlementsExclusive == [] (C38_Open /\ C38_Closed) /\ [][C38_FirstWins]_vars

\* the release of a passed booking is in its transfer to the operator, who
\* calls back to raise a dispute and is refused
C38_Witness ==
    \E id \in Ids :
       /\ InFlight
       /\ tx.op = "releaseToOperator"
       /\ tx.id = id
       /\ CanCall
       /\ bookings[id].status = "Paid"
       /\ paidOut[id].operator = bookings[id].amount
       /\ RaiseDisputeResult(bookings[id].operator, id)
             = "Can only dispute after SLA verification"

-----------------------------------------------------------------------------
(* C39 *)

\* C39: for every existing booking and every time, isTimedOut returns true
\* exactly when handleTimeout, called at that time, would pass all its
\* guards; in particular it returns false for a booking already refunded by
\* a timeout.
C39_AgreesWithHandleTimeout ==
    \A id \in Ids, caller \in Addr :
       (bookingExists(id) /\ ~InFlight) =>
          isTimedOut(id) = <<"return", HandleTimeoutResult(caller, id) = OK>>

\* the booking has been refunded by handleTimeout (C37)
C39_RefundedByTimeout(id) ==
    bookings[id].status = "Refunded" /\ ~bookings[id].slaVerified

\* C39 as it holds: for every existing booking and every time, isTimedOut
\* returns true exactly when handleTimeout, called at that time, would pass
\* all its guards, or the booking has already been refunded by a timeout.
\* It returns false before and exactly at the deadline and for every
\* verified booking, and it stays true for a booking refunded by a timeout,
\* on which handleTimeout fails with "Invalid booking status".
C39_TimedOut ==
    \A id \in Ids :
       bookingExists(id) =>
          /\ isTimedOut(id)[1] = "return"
          /\ \A caller \in Addr :
                isTimedOut(id)[2] <=> \/ HandleTimeoutResult(caller, id) = OK
                                      \/ C39_RefundedByTimeout(id)
          /\ now <= bookings[id].slaDeadline => isTimedOut(id)[2] = FALSE
          /\ bookings[id].slaVerified => isTimedOut(id)[2] = FALSE
          /\ C39_RefundedByTimeout(id) =>
                /\ isTimedOut(id)[2] = TRUE
                /\ \A caller \in Addr : HandleTimeoutResult(caller, id) # OK

\* a booking refunded by timeout, the refund completed: isTimedOut still
\* returns true while a second handleTimeout is refused for its status
C39_Witness ==
    \E id \in Ids :
       /\ ~InFlight
       /\ C39_RefundedByTimeout(id)
       /\ paidOut[id].tourist = bookings[id].amount
       /\ isTimedOut(id) = <<"return", TRUE>>
       /\ HandleTimeoutResult(bookings[id].tourist, id) = "Invalid booking status"

-----------------------------------------------------------------------------
(* C40 *)

\* the last instant of the clock
C40_LastInstant == SLA_TIMEOUT_HOURS * HOUR + MaxSlack

C40_Enabled ==
    \A id \in Ids :
       (bookingExists(id) /\ ~entered) =>
          LET booking == bookings[id] IN
          /\ ~Terminal(booking.status) => balance >= booking.amount
          /\ \A caller \in Addr :
                /\ (booking.status = "Pending" /\ now > booking.slaDeadline) =>
                      HandleTimeoutResult(caller, id) = OK
                /\ (booking.status = "Pending" /\ now <= booking.slaDeadline) =>
                      OK \notin PayoutResults(caller, id)
                /\ booking.status = "SLAPassed" => ReleaseToOperatorResult(caller, id) = OK
                /\ booking.status = "SLAFailed" => RefundToTouristResult(caller, id) = OK
                /\ booking.status = "Disputed" =>
                      /\ ResolveDisputeResult(caller, id) = OK <=> caller \in arbiters
                      /\ OK \notin PayoutResults(caller, id)
                      /\ VerifySLAResult(caller, id) # OK
                      /\ RaiseDisputeResult(caller, id) # OK
          /\ booking.status = "Disputed" => AuthorizeArbiterResult(Owner, Owner) = OK

C40_OnlyArbiter ==
    \A id \in Ids :
       (bookings[id].status = "Disputed" /\ bookings'[id].status # "Disputed") =>
          /\ arbiters # {}
          /\ InFlight'
          /\ tx'.op = "resolveDispute"
          /\ Terminal(bookings'[id].status)

C40_Settles ==
    \A id \in Ids :
       (bookingExists(id) /\ ~Terminal(bookings[id].status)
           /\ bookings[id].slaDeadline < C40_LastInstant)
       ~> (Terminal(bookings[id].status) /\ ~InFlight)

\* C40: no booking is stuck.  Outside a running payout, a Pending booking
\* past its deadline passes handleTimeout for every caller, an SLAPassed one
\* releaseToOperator and an SLAFailed one refundToTourist, and the contract
\* holds the amount to pay; a Disputed booking passes resolveDispute for the
\* arbiters and no operation for anybody else, it leaves Disputed through
\* resolveDispute only, and the owner can authorize an arbiter.  When the
\* clock advances, transfers are accepted in the end and the calls that are
\* possible again and again are made, every booking that is not settled
\* (and whose deadline the clock can pass) becomes Paid or Refunded.
C40_NoBookingStuck == [] C40_Enabled /\ [][C40_OnlyArbiter]_vars /\ C40_Settles

\* a Disputed booking while no arbiter is authorized: nobody can resolve it
\* until the owner authorizes one
C40_Witness ==
    \E id \in Ids :
       /\ ~InFlight
       /\ bookings[id].status = "Disputed"
       /\ arbiters = {}
       /\ balance = bookings[id].amount
       /\ \A caller \in Addr : ResolveDisputeResult(caller, id) = "Not authorized arbiter"
       /\ AuthorizeArbiterResult(Owner, Owner) = OK
====
